---------------------------- MODULE Spec2Model ----------------------------
(***************************************************************************)
(* State-vector simulation engine and circuit store of the toy quantum     *)
(* machine: gate library, gate application, timeline construction,         *)
(* measurement, and the store actions that drive them.                     *)
(*                                                                         *)
(* Numbers.  The program computes on IEEE doubles.  Every matrix entry of  *)
(* the gate library lies in Z[sqrt 2]/2^k, so the model computes exactly   *)
(* in that ring: a number is <<a, b, k>> and stands for                    *)
(* (a + b*sqrt(2)) / 2^k, kept in lowest terms.  NaN (the value JavaScript *)
(* arithmetic yields on a read outside a typed array) is <<0, 0, -1>>.     *)
(*                                                                         *)
(* Evaluation.  A value the program computes once and reads several times  *)
(* (a const, a destructured result) is bound with With, or named in a LET  *)
(* that stands for a parameter, so that it is computed once per call.      *)
(***************************************************************************)
EXTENDS Integers, Sequences, FiniteSets, TLC

\* const value = ...; followed by the code that reads it
With(value0, Body(_)) == LET value == value0 IN Body(value)

-----------------------------------------------------------------------------
(* Exact arithmetic standing for the doubles of the program *)

NaN == <<0, 0, -1>>

IsNaN(x) == x[3] < 0

RECURSIVE Pow2(_)
Pow2(e) == IF e <= 0 THEN 1 ELSE 2 * Pow2(e - 1)

RECURSIVE Reduce(_, _, _)
Reduce(a, b, k) ==
  IF k > 0 /\ a % 2 = 0 /\ b % 2 = 0
    THEN Reduce(a \div 2, b \div 2, k - 1)
    ELSE <<a, b, k>>

Zero == <<0, 0, 0>>
One == <<1, 0, 0>>
MinusOne == <<-1, 0, 0>>

Max(a0, b0) == LET a == a0 b == b0 IN IF a >= b THEN a ELSE b
Min(a0, b0) == LET a == a0 b == b0 IN IF a <= b THEN a ELSE b

\* x + y, over the common denominator 2^(x[3] + y[3])
Add(x0, y0) ==
  LET x == x0
      y == y0
  IN IF IsNaN(x) \/ IsNaN(y) THEN NaN
     ELSE IF x = Zero THEN y
     ELSE IF y = Zero THEN x
     ELSE Reduce(x[1] * Pow2(y[3]) + y[1] * Pow2(x[3]),
                 x[2] * Pow2(y[3]) + y[2] * Pow2(x[3]),
                 x[3] + y[3])

Neg(x0) ==
  LET x == x0 IN IF IsNaN(x) THEN NaN ELSE <<0 - x[1], 0 - x[2], x[3]>>

\* x - y
Sub(x, y) == Add(x, Neg(y))

\* x * y
Mul(x0, y0) ==
  LET x == x0
      y == y0
  IN IF IsNaN(x) \/ IsNaN(y) THEN NaN
     ELSE IF x = Zero \/ y = Zero THEN Zero
     ELSE Reduce(x[1] * y[1] + 2 * x[2] * y[2],
                 x[1] * y[2] + x[2] * y[1],
                 x[3] + y[3])

\* the sign (-1, 0, 1) of a + b*sqrt(2)
Sign(x0) ==
  LET x == x0
      a == x[1]
      b == x[2]
  IN IF a = 0 /\ b = 0 THEN 0
     ELSE IF a >= 0 /\ b >= 0 THEN 1
     ELSE IF a <= 0 /\ b <= 0 THEN -1
     ELSE IF a > 0 THEN (IF a * a > 2 * b * b THEN 1 ELSE -1)
     ELSE (IF 2 * b * b > a * a THEN 1 ELSE -1)

\* x <= y and x > y as JavaScript compares them (false when either is NaN)
Leq(x0, y0) ==
  LET x == x0
      y == y0
  IN ~IsNaN(x) /\ ~IsNaN(y) /\ Sign(Sub(y, x)) >= 0

Gt(x0, y0) ==
  LET x == x0
      y == y0
  IN ~IsNaN(x) /\ ~IsNaN(y) /\ Sign(Sub(x, y)) > 0

\* 1 / Math.sqrt(x) where it is a number of the ring: x = 2^-j gives sqrt(2)^j
InvSqrtExact(x0) == LET x == x0 IN x[1] = 1 /\ x[2] = 0 /\ x[3] >= 0

InvSqrt(x0) ==
  LET x == x0
  IN IF x[3] % 2 = 0
       THEN <<Pow2(x[3] \div 2), 0, 0>>
       ELSE <<0, Pow2((x[3] - 1) \div 2), 0>>

-----------------------------------------------------------------------------
(* Bit operations on the 32-bit integers of the program *)

Bit(x, q) == (x \div Pow2(q)) % 2

\* x | y
RECURSIVE BitOr(_, _)
BitOr(x0, y0) ==
  LET x == x0
      y == y0
  IN IF x = 0 THEN y
     ELSE IF y = 0 THEN x
     ELSE Max(x % 2, y % 2) + 2 * BitOr(x \div 2, y \div 2)

\* 1 << e on 32-bit integers: the shift count is e modulo 32, and a count of
\* 31 sets the sign bit
Shl1(e) ==
  LET count == e % 32
  IN IF count = 31 THEN (0 - Pow2(30)) - Pow2(30) ELSE Pow2(count)

-----------------------------------------------------------------------------
(* complex.ts *)

multiplyComplex(aReal0, aImag0, bReal0, bImag0) ==
  LET aReal == aReal0
      aImag == aImag0
      bReal == bReal0
      bImag == bImag0
  IN <<Sub(Mul(aReal, bReal), Mul(aImag, bImag)),
       Add(Mul(aReal, bImag), Mul(aImag, bReal))>>

magnitudeSquared(real0, imag0) ==
  LET real == real0
      imag == imag0
  IN Add(Mul(real, real), Mul(imag, imag))

-----------------------------------------------------------------------------
(* gates.ts: the gate library *)

\* the entry 1/2 in the place of 1/sqrt(2)
SQRT1_2_half == <<1, 0, 1>>

SQRT1_2 == <<0, 1, 1>>

getEntry(matrix, row, column) ==
  LET offset == (row * matrix.size + column) * 2
  IN <<matrix.data[offset + 1], matrix.data[offset + 2]>>

\* Math.abs(x) > EPSILON.  EPSILON is 1e-9; a nonzero (a + b*sqrt 2)/2^k has
\* magnitude at least 1/((|a| + |b|*sqrt 2) * 2^k), far above 1e-9 for the
\* entries of 2x2, 4x4 and 8x8 products of library-sized matrices, so the test
\* is decided by the value being nonzero.
AbsGtEpsilon(x) == Sign(x) # 0

\* the (row, col) entry of U.U^dagger, accumulated over k as the code does
RECURSIVE unitaryEntry(_, _, _, _, _)
unitaryEntry(matrix, row, col, k, acc) ==
  IF k >= matrix.size THEN acc
  ELSE unitaryEntry(matrix, row, col, k + 1,
         With(<<getEntry(matrix, row, k), getEntry(matrix, col, k)>>,
              LAMBDA ab :
                With(multiplyComplex(ab[1][1], ab[1][2],
                                     ab[2][1], Neg(ab[2][2])),
                     LAMBDA prod : <<Add(acc[1], prod[1]),
                                     Add(acc[2], prod[2])>>)))

\* the check that looks at the diagonal of U.U^dagger only
validateUnitary_diagonalOnly(matrix) ==
  \A row \in 0..(matrix.size - 1) :
    With(unitaryEntry(matrix, row, row, 0, <<Zero, Zero>>),
         LAMBDA e :
           ~(\/ AbsGtEpsilon(Sub(e[1], One))
             \/ AbsGtEpsilon(e[2])))

\* TRUE when validateUnitary returns, FALSE when it throws
validateUnitary(matrix) ==
  \A row \in 0..(matrix.size - 1), col \in 0..(matrix.size - 1) :
    With(unitaryEntry(matrix, row, col, 0, <<Zero, Zero>>),
         LAMBDA e :
           ~(\/ AbsGtEpsilon(Sub(e[1], IF row = col THEN One ELSE Zero))
             \/ AbsGtEpsilon(e[2])))

MatrixMismatch == "Matrix entries mismatch for size"
NonUnitary == "Non-unitary matrix detected during gate initialization"
NoError == ""

\* [err, matrix]: err is the message thrown, NoError when the matrix is returned
createMatrix(size, entries) ==
  IF Len(entries) # size * size * 2
    THEN [err |-> MatrixMismatch, matrix |-> [size |-> size, data |-> <<>>]]
  ELSE IF validateUnitary([size |-> size, data |-> entries])
    THEN [err |-> NoError, matrix |-> [size |-> size, data |-> entries]]
  ELSE [err |-> NonUnitary, matrix |-> [size |-> size, data |-> entries]]

\* a real entry r of a matrix literal: the pair r, 0
R(x) == <<x, Zero>>

\* flattens rows of (real, imag) pairs into the interleaved entry list
RECURSIVE Flatten(_)
Flatten(pairs) ==
  IF pairs = <<>> THEN <<>> ELSE Head(pairs) \o Flatten(Tail(pairs))

\* the palette as written: name, arity, and the arguments of createMatrix
paletteLiterals ==
  << [name |-> "X", arity |-> 1, size |-> 2,
      entries |-> << R(Zero), R(One),
                     R(One), R(Zero) >>],
     [name |-> "Z", arity |-> 1, size |-> 2,
      entries |-> << R(One), R(Zero),
                     R(Zero), R(MinusOne) >>],
     [name |-> "H", arity |-> 1, size |-> 2,
      entries |-> << R(SQRT1_2), R(SQRT1_2),
                     R(SQRT1_2), R(Neg(SQRT1_2)) >>],
     [name |-> "S", arity |-> 1, size |-> 2,
      entries |-> << R(One), R(Zero),
                     R(Zero), <<Zero, One>> >>],
     [name |-> "T", arity |-> 1, size |-> 2,
      entries |-> << R(One), R(Zero),
                     R(Zero), <<SQRT1_2, SQRT1_2>> >>],
     [name |-> "CNOT", arity |-> 2, size |-> 4,
      entries |-> << R(One), R(Zero), R(Zero), R(Zero),
                     R(Zero), R(One), R(Zero), R(Zero),
                     R(Zero), R(Zero), R(Zero), R(One),
                     R(Zero), R(Zero), R(One), R(Zero) >>],
     [name |-> "SWAP", arity |-> 2, size |-> 4,
      entries |-> << R(One), R(Zero), R(Zero), R(Zero),
                     R(Zero), R(Zero), R(One), R(Zero),
                     R(Zero), R(One), R(Zero), R(Zero),
                     R(Zero), R(Zero), R(Zero), R(One) >>] >>

\* the palette: each literal with the matrix createMatrix returns for it
gatePalette ==
  With(paletteLiterals,
       LAMBDA literals :
         [i \in DOMAIN literals |->
            [name |-> literals[i].name,
             arity |-> literals[i].arity,
             matrix |-> createMatrix(literals[i].size,
                                     Flatten(literals[i].entries)).matrix]])

\* the names of the GateName type (types/quantum.ts)
GateName == {"X", "Z", "H", "S", "T", "CNOT", "TOFFOLI", "SWAP"}

\* GATE_LIBRARY[name] is defined
InLibrary(name) ==
  With(gatePalette,
       LAMBDA palette : \E i \in DOMAIN palette : palette[i].name = name)

\* GATE_LIBRARY[name]: the reduce keeps the last palette entry of that name
GATE_LIBRARY(name) ==
  With(gatePalette,
       LAMBDA palette :
         palette[CHOOSE i \in DOMAIN palette :
                   /\ palette[i].name = name
                   /\ \A j \in (i + 1)..Len(palette) : palette[j].name # name])

-----------------------------------------------------------------------------
(* engine.ts: state vectors.  A Float64Array is the sequence of its         *)
(* elements: element i of the array is at position i + 1.                   *)

\* new Float64Array(length)
RECURSIVE Float64Array(_)
Float64Array(length) ==
  IF length <= 0 THEN <<>> ELSE Append(Float64Array(length - 1), Zero)

\* a read of a Float64Array: undefined outside it, which arithmetic turns to NaN
Read(arr0, i0) ==
  LET arr == arr0
      i == i0
  IN IF i >= 0 /\ i < Len(arr) THEN arr[i + 1] ELSE NaN

\* a write to a Float64Array: ignored outside it
Write(arr0, i0, v) ==
  LET arr == arr0
      i == i0
  IN IF i >= 0 /\ i < Len(arr) THEN [arr EXCEPT ![i + 1] = v] ELSE arr

\* the test that takes every value but 0 for a set bit
BitIsOne_truthy(bits, qubit) == qubit + 1 \in DOMAIN bits /\ bits[qubit + 1] # 0

\* bits[qubit] === 1 for the initialState array (undefined past its end)
BitIsOne(bits, qubit) == qubit + 1 \in DOMAIN bits /\ bits[qubit + 1] = 1

RECURSIVE basisIndex(_, _, _, _)
basisIndex(n, bits, qubit, index) ==
  IF qubit >= n THEN index
  ELSE basisIndex(n, bits, qubit + 1,
                  IF BitIsOne(bits, qubit)
                    THEN BitOr(index, Shl1(qubit)) ELSE index)

createBasisState(n, bits) ==
  With(Float64Array(Shl1(n)),
       LAMBDA zeros : [real |-> Write(zeros, basisIndex(n, bits, 0, 0), One),
                       imag |-> zeros])

createZeroState(n) == createBasisState(n, <<>>)

\* the values of a copy.  A state is the value of its two arrays; which
\* buffer holds them is told apart by the addresses below.
cloneState(source0) ==
  LET source == source0 IN [real |-> source.real, imag |-> source.imag]

\* Buffers.  A buffer (the pair of Float64Arrays of one StateVector object) is
\* known by an address; top is the highest address handed out so far.

\* the clone that hands back the buffer it was given
cloneBuffer_sameBuffer(source, top) == source

\* cloneState: new Float64Array(source.real), new Float64Array(source.imag)
cloneBuffer(source, top) == top + 1

\* the position of the first entry that holds the buffer of entry i: buffers
\* are the same or not, their addresses say nothing else
rank(owners, i) ==
  CHOOSE j \in 1..i :
    owners[j] = owners[i] /\ \A k \in 1..(j - 1) : owners[k] # owners[i]

\* a timeline entry with the buffer that holds its state
tag(entry, address) ==
  [step |-> entry.step, state |-> entry.state, gate |-> entry.gate,
   gates |-> entry.gates, column |-> entry.column, buffer |-> address]

\* the entries with their buffers, and the entries whose buffer was written
\* to in place after it was allocated
tagTimeline(entries, owners, written) ==
  [timeline |-> [i \in DOMAIN entries |-> tag(entries[i], rank(owners, i))],
   written |-> {rank(owners, i) : i \in {j \in DOMAIN entries :
                                           owners[j] \in written}}]

-----------------------------------------------------------------------------
(* engine.ts: gate application *)

\* the step that computes the second amplitude from the first one it has
\* just written
singleQubitStep_usesWritten(state0, m, i0, i1) ==
  LET state == state0
  IN With(<<Read(state.real, i0), Read(state.imag, i0),
            Read(state.real, i1), Read(state.imag, i1)>>,
          LAMBDA ab :
            With(<<multiplyComplex(m[1], m[2], ab[1], ab[2]),
                   multiplyComplex(m[3], m[4], ab[3], ab[4])>>,
                 LAMBDA c :
                   With(<<multiplyComplex(m[5], m[6], Add(c[1][1], c[2][1]),
                                          Add(c[1][2], c[2][2])),
                          multiplyComplex(m[7], m[8], ab[3], ab[4])>>,
                        LAMBDA e :
                          [real |-> Write(Write(state.real, i0,
                                                Add(c[1][1], c[2][1])),
                                          i1, Add(e[1][1], e[2][1])),
                           imag |-> Write(Write(state.imag, i0,
                                                Add(c[1][2], c[2][2])),
                                          i1, Add(e[1][2], e[2][2]))])))

\* one round of the inner loop: the four products, then the four writes
singleQubitStep(state0, m, i0, i1) ==
  LET state == state0
  IN With(<<Read(state.real, i0), Read(state.imag, i0),
            Read(state.real, i1), Read(state.imag, i1)>>,
          LAMBDA ab :
            With(<<multiplyComplex(m[1], m[2], ab[1], ab[2]),
                   multiplyComplex(m[3], m[4], ab[3], ab[4]),
                   multiplyComplex(m[5], m[6], ab[1], ab[2]),
                   multiplyComplex(m[7], m[8], ab[3], ab[4])>>,
                 LAMBDA c :
                   [real |-> Write(Write(state.real, i0, Add(c[1][1], c[2][1])),
                                   i1, Add(c[3][1], c[4][1])),
                    imag |-> Write(Write(state.imag, i0, Add(c[1][2], c[2][2])),
                                   i1, Add(c[3][2], c[4][2]))]))

RECURSIVE singleQubitLoop(_, _, _, _, _)
singleQubitLoop(state0, m, stride, base, offset) ==
  LET state == state0
  IN IF base >= Len(state.real) THEN state
     ELSE IF offset >= stride
       THEN singleQubitLoop(state, m, stride, base + stride * 2, 0)
     ELSE singleQubitLoop(singleQubitStep(state, m, base + offset,
                                          base + offset + stride),
                          m, stride, base, offset + 1)

applySingleQubitGate(state, matrix, targetQubit) ==
  singleQubitLoop(state, matrix.data, Shl1(targetQubit), 0, 0)

RECURSIVE scatterLoop(_, _, _, _, _)
scatterLoop(value, targetFlags, bit, otherBitIndex, result) ==
  IF bit >= Len(targetFlags) THEN result
  ELSE IF targetFlags[bit + 1]
    THEN scatterLoop(value, targetFlags, bit + 1, otherBitIndex, result)
  ELSE scatterLoop(value, targetFlags, bit + 1, otherBitIndex + 1,
                   IF Bit(value, otherBitIndex) = 1
                     THEN BitOr(result, Shl1(bit)) ELSE result)

scatterBits(value, targetFlags) == scatterLoop(value, targetFlags, 0, 0, 0)

RECURSIVE encodeLoop(_, _, _, _)
encodeLoop(pattern, targets, i, mask) ==
  IF i >= Len(targets) THEN mask
  ELSE encodeLoop(pattern, targets, i + 1,
                  IF Bit(pattern, (Len(targets) - 1) - i) = 1
                    THEN BitOr(mask, Shl1(targets[i + 1])) ELSE mask)

\* the encoding that takes the last target as the most significant bit
encodePattern_lastTargetFirst(pattern, targets) ==
  encodeLoop(pattern,
             [i \in 1..Len(targets) |-> targets[Len(targets) + 1 - i]], 0, 0)

encodePattern(pattern, targets) == encodeLoop(pattern, targets, 0, 0)

\* new Array(numQubits).fill(false) with targetFlags[idx] = true for each
\* target: an index past the end lengthens the array (holes read as false)
RECURSIVE flagLoop(_, _, _)
flagLoop(targets, length, bit) ==
  IF bit >= length THEN <<>>
  ELSE <<\E i \in DOMAIN targets : targets[i] = bit>>
       \o flagLoop(targets, length, bit + 1)

RECURSIVE maxTarget(_, _, _)
maxTarget(targets, i, top) ==
  IF i > Len(targets) THEN top
  ELSE maxTarget(targets, i + 1, Max(top, targets[i]))

\* the flags that mark the first target only
makeTargetFlags_firstTargetOnly(targets, n) ==
  flagLoop(<<targets[1]>>, Max(n, maxTarget(targets, 1, -1) + 1), 0)

makeTargetFlags(targets, n) ==
  flagLoop(targets, Max(n, maxTarget(targets, 1, -1) + 1), 0)

\* the gather loop over pattern: the (real, imag) pairs of the sub-vector
RECURSIVE gather(_, _, _, _, _)
gather(state, baseIndex, targets, blockSize, pattern) ==
  IF pattern >= blockSize THEN <<>>
  ELSE With(BitOr(baseIndex, encodePattern(pattern, targets)),
            LAMBDA idx : <<<<Read(state.real, idx), Read(state.imag, idx)>>>>)
       \o gather(state, baseIndex, targets, blockSize, pattern + 1)

\* one row of the matrix-vector product, accumulated over col
RECURSIVE rowProduct(_, _, _, _, _, _)
rowProduct(matrix, vector, blockSize, row, col, acc) ==
  IF col >= blockSize THEN acc
  ELSE rowProduct(matrix, vector, blockSize, row, col + 1,
         With(multiplyComplex(matrix.data[(row * matrix.size + col) * 2 + 1],
                              matrix.data[(row * matrix.size + col) * 2 + 2],
                              vector[col + 1][1], vector[col + 1][2]),
              LAMBDA prod : <<Add(acc[1], prod[1]), Add(acc[2], prod[2])>>))

\* the loop over row: the product vector
RECURSIVE product(_, _, _, _)
product(matrix, vector, blockSize, row) ==
  IF row >= blockSize THEN <<>>
  ELSE <<rowProduct(matrix, vector, blockSize, row, 0, <<Zero, Zero>>)>>
       \o product(matrix, vector, blockSize, row + 1)

\* the write-back loop over pattern
RECURSIVE writeBack(_, _, _, _, _, _)
writeBack(state0, next, baseIndex, targets, blockSize, pattern) ==
  LET state == state0
  IN IF pattern >= blockSize \/ Len(state.real) = 0 THEN state
     ELSE writeBack(
            With(BitOr(baseIndex, encodePattern(pattern, targets)),
                 LAMBDA idx :
                   [real |-> Write(state.real, idx, next[pattern + 1][1]),
                    imag |-> Write(state.imag, idx, next[pattern + 1][2])]),
            next, baseIndex, targets, blockSize, pattern + 1)

\* one round of the loop over combo: gather, multiply, write back
comboStep(state0, matrix, targets, baseIndex0, blockSize0) ==
  LET state == state0
      baseIndex == baseIndex0
      blockSize == blockSize0
  IN writeBack(state,
               product(matrix,
                       gather(state, baseIndex, targets, blockSize, 0),
                       blockSize, 0),
               baseIndex, targets, blockSize, 0)

\* the loop over combo (the buffer is never empty: reading its length has
\* each round evaluate the buffer the round before it left)
RECURSIVE comboLoop(_, _, _, _, _, _)
comboLoop(state0, matrix, targets, targetFlags, combos, combo) ==
  LET state == state0
  IN IF combo >= combos \/ Len(state.real) = 0 THEN state
     ELSE comboLoop(comboStep(state, matrix, targets,
                              scatterBits(combo, targetFlags),
                              Shl1(Len(targets))),
                    matrix, targets, targetFlags, combos, combo + 1)

applyMultiQubitGate(state, matrix, targets, n) ==
  comboLoop(state, matrix, targets, makeTargetFlags(targets, n),
            Shl1(n - Len(targets)), 0)

UnknownGate == "Unknown gate"
ArityMismatch == "Gate expects a different number of targets"

\* the call that clears the buffer before it checks the name and the targets
applyGateToState_writesBeforeCheck(state0, gateName, targets, n) ==
  IF ~InLibrary(gateName)
    THEN [err |-> UnknownGate, state |-> createZeroState(n)]
  ELSE IF Len(targets) # GATE_LIBRARY(gateName).arity
    THEN [err |-> ArityMismatch, state |-> createZeroState(n)]
  ELSE [err |-> NoError, state |-> state0]

\* [err, state]: err is the message thrown (NoError when the call returns) and
\* state the caller's buffer after the call
applyGateToState(state0, gateName, targets, n) ==
  LET state == state0
  IN IF ~InLibrary(gateName) THEN [err |-> UnknownGate, state |-> state]
     ELSE With(GATE_LIBRARY(gateName),
               LAMBDA gate :
                 IF Len(targets) # gate.arity
                   THEN [err |-> ArityMismatch, state |-> state]
                 ELSE IF gate.arity = 1
                   THEN [err |-> NoError,
                         state |-> applySingleQubitGate(state, gate.matrix,
                                                        targets[1])]
                 ELSE [err |-> NoError,
                       state |-> applyMultiQubitGate(state, gate.matrix,
                                                     targets, n)])

-----------------------------------------------------------------------------
(* engine.ts: timeline *)

\* an optional field of an object: absent, or present with a value
None == <<>>
Some(v) == <<v>>

\* the comparator that orders by column alone
gateBefore_columnOnly(a, b) == a.column < b.column

\* the comparator of the sort: column ascending, then id.localeCompare
gateBefore(a, b) ==
  IF a.column = b.column THEN a.id < b.id ELSE a.column < b.column

\* a gate object that has no id field (an id of the store is never this one)
NoId == 0

LocaleCompareOfUndefined ==
  "Cannot read properties of undefined (reading 'localeCompare')"

\* the comparator called with a gate that has no id before a gate of its
\* column: a.id.localeCompare is read off undefined.  A sort has to compare
\* two gates of a column to order them, so it throws when a column holds two
\* gates or more and none of them has an id.
sortThrows(gateList) ==
  \E i \in DOMAIN gateList :
    /\ \E j \in DOMAIN gateList : j # i /\ gateList[j].column = gateList[i].column
    /\ \A j \in DOMAIN gateList :
         gateList[j].column = gateList[i].column => gateList[j].id = NoId

\* Array.prototype.sort is stable: insert each gate after every gate that
\* does not compare greater than it
RECURSIVE insertGate(_, _)
insertGate(sorted, g) ==
  IF sorted = <<>> THEN <<g>>
  ELSE IF gateBefore(g, Head(sorted)) THEN <<g>> \o sorted
  ELSE <<Head(sorted)>> \o insertGate(Tail(sorted), g)

RECURSIVE sortGates(_)
sortGates(gateList) ==
  IF gateList = <<>> THEN <<>>
  ELSE insertGate(sortGates(SubSeq(gateList, 1, Len(gateList) - 1)),
                  gateList[Len(gateList)])

\* the forEach of buildTimeline: one entry per gate; a throw ends the build
RECURSIVE buildLoop(_, _, _, _, _)
buildLoop(n, orderedGates, index, workingState, entries) ==
  IF index >= Len(orderedGates) THEN [err |-> NoError, timeline |-> entries]
  ELSE
    With(applyGateToState(cloneState(workingState),
                          orderedGates[index + 1].name,
                          orderedGates[index + 1].targets, n),
         LAMBDA applied :
           IF applied.err # NoError
             THEN [err |-> applied.err, timeline |-> <<>>]
           ELSE buildLoop(n, orderedGates, index + 1, applied.state,
                          Append(entries,
                                 [step |-> index + 1,
                                  state |-> cloneState(applied.state),
                                  gate |-> Some(orderedGates[index + 1]),
                                  gates |-> None,
                                  column |-> None])))

\* the buffers of buildTimeline.  createBasisState allocates the buffer at
\* address 1 and the entry of step 0 holds a clone of it; each round of the
\* forEach makes workingState a clone, applies the gate to it in place
\* (written), and pushes a clone of it (owners).
RECURSIVE buildBuffers(_, _, _, _, _)
buildBuffers(rounds, working, top, owners, written) ==
  IF rounds <= 0 THEN [owners |-> owners, written |-> written]
  ELSE With(cloneBuffer(working, top),
            LAMBDA next :
       With(cloneBuffer(next, Max(top, next)),
            LAMBDA pushed :
              buildBuffers(rounds - 1, next, Max(Max(top, next), pushed),
                           Append(owners, pushed), written \cup {next})))

\* [err, timeline, written, gates]: err is the message thrown by the sort or
\* by a gate application (NoError when a timeline returns), written the
\* entries whose buffer a gate was applied to in place, and gates the
\* caller's array after the call: the sort is made on a copy of it
buildTimeline(n, gateList, bits) ==
  IF sortThrows(gateList)
    THEN [err |-> LocaleCompareOfUndefined, timeline |-> <<>>,
          written |-> {}, gates |-> gateList]
  ELSE
  With(createBasisState(n, bits),
       LAMBDA workingState :
  With(buildLoop(n, sortGates(gateList), 0, workingState,
                 << [step |-> 0,
                     state |-> cloneState(workingState),
                     gate |-> None,
                     gates |-> None,
                     column |-> None] >>),
       LAMBDA built :
  With(tagTimeline(built.timeline,
                   buildBuffers(Len(built.timeline) - 1, 1,
                                Max(1, cloneBuffer(1, 1)),
                                <<cloneBuffer(1, 1)>>, {}).owners,
                   buildBuffers(Len(built.timeline) - 1, 1,
                                Max(1, cloneBuffer(1, 1)),
                                <<cloneBuffer(1, 1)>>, {}).written),
       LAMBDA tagged :
         [err |-> built.err, timeline |-> tagged.timeline,
          written |-> tagged.written, gates |-> gateList])))

-----------------------------------------------------------------------------
(* engine.ts: measurement *)

EmptySelection == "Select at least one qubit to measure"
MeasureOutOfRange == "Measurement target outside register range"

\* [...new Set(measuredQubits)].sort((a, b) => a - b)
RECURSIVE sortedSet(_)
sortedSet(S) ==
  IF S = {} THEN <<>>
  ELSE LET m == CHOOSE m \in S : \A x \in S : m <= x
       IN <<m>> \o sortedSet(S \ {m})

\* the list taken as it was passed, neither deduplicated nor sorted
sortedUnique_asPassed(measuredQubits) == measuredQubits

sortedUnique(measuredQubits) ==
  sortedSet({measuredQubits[i] : i \in DOMAIN measuredQubits})

\* the bits of basis at the measured qubits, first sorted qubit lowest
RECURSIVE patternLoop(_, _, _, _)
patternLoop(basis, sortedQubits, bitIdx, pattern) ==
  IF bitIdx >= Len(sortedQubits) THEN pattern
  ELSE patternLoop(basis, sortedQubits, bitIdx + 1,
                   BitOr(pattern,
                         Bit(basis, sortedQubits[bitIdx + 1]) * Shl1(bitIdx)))

patternOf(basis, sortedQubits) == patternLoop(basis, sortedQubits, 0, 0)

RECURSIVE probabilityLoop(_, _, _, _)
probabilityLoop(state, sortedQubits, basis, subsetProbabilities) ==
  IF basis >= Len(state.real) \/ Len(subsetProbabilities) = 0
    THEN subsetProbabilities
  ELSE probabilityLoop(state, sortedQubits, basis + 1,
         [subsetProbabilities
            EXCEPT ![patternOf(basis, sortedQubits) + 1] =
                     Add(@, magnitudeSquared(state.real[basis + 1],
                                             state.imag[basis + 1]))])

\* the label "q<qubit>=<bit> ..." as the list of its (qubit, bit) pairs
RECURSIVE describeLoop(_, _, _)
describeLoop(pattern, qubits, idx) ==
  IF idx >= Len(qubits) THEN <<>>
  ELSE <<<<qubits[idx + 1], Bit(pattern, idx)>>>>
       \o describeLoop(pattern, qubits, idx + 1)

describePattern(pattern, qubits) == describeLoop(pattern, qubits, 0)

RECURSIVE sumLoop(_, _, _)
sumLoop(probabilities, i, sum) ==
  IF i >= Len(probabilities) THEN sum
  ELSE sumLoop(probabilities, i + 1, Add(sum, probabilities[i + 1]))

\* the loop that stops only once the sum is past the threshold
RECURSIVE sampleLoop_strict(_, _, _, _)
sampleLoop_strict(probabilities, threshold, i, accumulator) ==
  IF i >= Len(probabilities) THEN Len(probabilities) - 1
  ELSE With(Add(accumulator, probabilities[i + 1]),
            LAMBDA acc :
              IF ~Leq(acc, threshold) THEN i
              ELSE sampleLoop_strict(probabilities, threshold, i + 1, acc))

RECURSIVE sampleLoop(_, _, _, _)
sampleLoop(probabilities, threshold, i, accumulator) ==
  IF i >= Len(probabilities) THEN Len(probabilities) - 1
  ELSE With(Add(accumulator, probabilities[i + 1]),
            LAMBDA acc :
              IF Leq(threshold, acc) THEN i
              ELSE sampleLoop(probabilities, threshold, i + 1, acc))

\* random stands for the value Math.random() returns, in [0, 1)
samplePattern(probabilities, random) ==
  With(sumLoop(probabilities, 0, Zero),
       LAMBDA total :
         IF total = Zero THEN 0
         ELSE sampleLoop(probabilities, Mul(random, total), 0, Zero))

\* the mask that looks at the first measured qubit only
matchesMask_firstQubitOnly(basis, sortedQubits, selectedPattern) ==
  Bit(basis, sortedQubits[1]) = Bit(selectedPattern, 0)

matchesMask(basis, sortedQubits, selectedPattern) ==
  \A idx \in 1..Len(sortedQubits) :
    Bit(basis, sortedQubits[idx]) = Bit(selectedPattern, idx - 1)

\* the first collapse loop: zero the non-matching amplitudes and sum the rest
RECURSIVE maskLoop(_, _, _, _, _)
maskLoop(collapsed0, sortedQubits, selectedPattern, basis, normalization) ==
  LET collapsed == collapsed0
  IN IF basis >= Len(collapsed.real)
       THEN [state |-> collapsed, normalization |-> normalization]
     ELSE IF ~matchesMask(basis, sortedQubits, selectedPattern)
       THEN maskLoop([real |-> [collapsed.real EXCEPT ![basis + 1] = Zero],
                      imag |-> [collapsed.imag EXCEPT ![basis + 1] = Zero]],
                     sortedQubits, selectedPattern, basis + 1, normalization)
     ELSE maskLoop(collapsed, sortedQubits, selectedPattern, basis + 1,
                   Add(normalization,
                       magnitudeSquared(collapsed.real[basis + 1],
                                        collapsed.imag[basis + 1])))

\* the second collapse loop: scale every amplitude by normFactor
RECURSIVE scaleLoop(_, _, _)
scaleLoop(collapsed0, normFactor, basis) ==
  LET collapsed == collapsed0
  IN IF basis >= Len(collapsed.real) THEN collapsed
     ELSE scaleLoop(
            [real |-> [collapsed.real
                         EXCEPT ![basis + 1] = Mul(@, normFactor)],
             imag |-> [collapsed.imag
                         EXCEPT ![basis + 1] = Mul(@, normFactor)]],
            normFactor, basis + 1)

\* the probability map: the set of its (label, probability) entries in
\* pattern order (labels of distinct patterns are distinct)
RECURSIVE mapLoop(_, _, _)
mapLoop(subsetProbabilities, sortedQubits, pattern) ==
  IF pattern >= Len(subsetProbabilities) THEN <<>>
  ELSE << [label |-> describePattern(pattern, sortedQubits),
           probability |-> subsetProbabilities[pattern + 1]] >>
       \o mapLoop(subsetProbabilities, sortedQubits, pattern + 1)

\* the steps of measureState up to the normalization sum
measureSteps(state, measuredQubits, random) ==
  With(sortedUnique(measuredQubits),
       LAMBDA sortedQubits :
  With(probabilityLoop(state, sortedQubits, 0,
                       Float64Array(Shl1(Len(sortedQubits)))),
       LAMBDA subsetProbabilities :
  With(samplePattern(subsetProbabilities, random),
       LAMBDA selectedPattern :
  With(maskLoop(cloneState(state), sortedQubits, selectedPattern, 0, Zero),
       LAMBDA masked :
         [sortedQubits |-> sortedQubits,
          subsetProbabilities |-> subsetProbabilities,
          selectedPattern |-> selectedPattern,
          masked |-> masked.state,
          normalization |-> masked.normalization]))))

\* the check without the upper end of the range
measureThrows_noUpperEnd(measuredQubits, n) ==
  IF Len(measuredQubits) = 0 THEN EmptySelection
  ELSE IF \E i \in DOMAIN measuredQubits : measuredQubits[i] < 0
    THEN MeasureOutOfRange
  ELSE NoError

\* the message the call throws before it computes anything, NoError when it
\* goes on
measureThrows(measuredQubits, n) ==
  IF Len(measuredQubits) = 0 THEN EmptySelection
  ELSE IF \E i \in DOMAIN measuredQubits :
            measuredQubits[i] < 0 \/ measuredQubits[i] >= n
    THEN MeasureOutOfRange
  ELSE NoError

\* 1 / Math.sqrt(normalization) is a number of the ring (or is not computed)
measureRepresentable(state, measuredQubits, n, random) ==
  \/ measureThrows(measuredQubits, n) # NoError
  \/ With(measureSteps(state, measuredQubits, random).normalization,
          LAMBDA norm : ~Gt(norm, Zero) \/ InvSqrtExact(norm))

\* [err, state, nextState, result]: err is the message thrown (NoError on
\* return), state the caller's buffer after the call, nextState and result the
\* returned pair (None when the call throws)
measureState(state, measuredQubits, n, random) ==
  IF measureThrows(measuredQubits, n) # NoError
    THEN [err |-> measureThrows(measuredQubits, n), state |-> state,
          nextState |-> None, result |-> None]
  ELSE
    With(measureSteps(state, measuredQubits, random),
         LAMBDA m :
           [err |-> NoError,
            state |-> state,
            nextState |-> scaleLoop(m.masked,
                                    IF Gt(m.normalization, Zero)
                                      THEN InvSqrt(m.normalization) ELSE Zero,
                                    0),
            result |-> Some([outcome |-> describePattern(m.selectedPattern,
                                                         m.sortedQubits),
                             measuredQubits |-> m.sortedQubits,
                             probabilities |-> mapLoop(m.subsetProbabilities,
                                                       m.sortedQubits, 0)])])

createGateInstance(id, name, targets, column) ==
  [id |-> id, name |-> name, targets |-> targets, column |-> column]

MinQubits == 1
MaxQubits == 6
QubitRange == "Supported qubit range is 1-6"

\* the check without the lower end of the range
enforceQubitLimit_noLowerEnd(n) ==
  IF n > MaxQubits THEN QubitRange ELSE NoError

\* the message enforceQubitLimit throws, NoError when it returns
enforceQubitLimit(n) ==
  IF n < MinQubits \/ n > MaxQubits THEN QubitRange ELSE NoError

-----------------------------------------------------------------------------
(* useCircuitStore.ts: helpers *)

initialQubits == 3

normalizeInitialState(n, state) ==
  [idx \in 1..n |->
     IF idx <= Min(n, Len(state)) /\ state[idx] = 1 THEN 1 ELSE 0]

DuplicateTargets == "Duplicate qubit targets are not allowed"
TargetOutOfRange == "Target outside of register range"

\* the message enforceTargets throws, NoError when it returns
enforceTargets(targets, n) ==
  IF Cardinality({targets[i] : i \in DOMAIN targets}) # Len(targets)
    THEN DuplicateTargets
  ELSE IF \E i \in DOMAIN targets : targets[i] < 0 \/ targets[i] >= n
    THEN TargetOutOfRange
  ELSE NoError

orderGates(gateList) == sortGates(gateList)

\* the group of one column: its gates in list order
columnGroup(gateList, col) == SelectSeq(gateList, LAMBDA g : g.column = col)

\* group.forEach(applyGateToState(working, ...)): [err, state]
RECURSIVE applyGroup(_, _, _, _)
applyGroup(working, group, i, n) ==
  IF i > Len(group) THEN [err |-> NoError, state |-> working]
  ELSE With(applyGateToState(working, group[i].name, group[i].targets, n),
            LAMBDA applied :
              IF applied.err # NoError THEN applied
              ELSE applyGroup(applied.state, group, i + 1, n))

RECURSIVE rebuildLoop(_, _, _, _, _, _, _)
rebuildLoop(working, gateList, sortedColumns, idx, startingStep, n, entries) ==
  IF idx >= Len(sortedColumns) THEN [err |-> NoError, entries |-> entries]
  ELSE
    With(columnGroup(gateList, sortedColumns[idx + 1]),
         LAMBDA group :
    With(applyGroup(working, group, 1, n),
         LAMBDA applied :
           IF applied.err # NoError
             THEN [err |-> applied.err, entries |-> <<>>]
           ELSE rebuildLoop(applied.state, gateList, sortedColumns, idx + 1,
                            startingStep, n,
                            Append(entries,
                                   [step |-> startingStep + idx + 1,
                                    state |-> cloneState(applied.state),
                                    gate |-> None,
                                    gates |-> Some(group),
                                    column |-> Some(sortedColumns[idx + 1])]))))

\* [err, entries]
rebuildFutureTimeline(baseState, gateList, startingStep, n) ==
  rebuildLoop(cloneState(baseState), gateList,
              sortedSet({gateList[i].column : i \in DOMAIN gateList}),
              0, startingStep, n, <<>>)

-----------------------------------------------------------------------------
(* Bounds and inputs of the model *)

MaxGates == 2
MaxColumn == 1
DrawBits == 2
MaxRegister == 2
MaxCalls == 2
MaxCollapses == 1

\* ids nanoid can return, ordered as localeCompare orders them
GateIds == 1..MaxGates

\* values Math.random() can return: the multiples of 2^-DrawBits in [0, 1)
Draws == {Reduce(j, 0, DrawBits) : j \in 0..(Pow2(DrawBits) - 1)}

\* gate names a caller can pass: the GateName type and a name outside it
NameInputs == GateName \cup {"Y"}

\* target lists of up to three qubits drawn from 0..top
TargetLists(top) ==
  {<<>>} \cup {<<a>> : a \in 0..top}
         \cup {<<a, b>> : a \in 0..top, b \in 0..top}
         \cup {<<a, b, c>> : a \in 0..top, b \in 0..top, c \in 0..top}

\* pairs and triples of distinct qubits below n, with the single qubits
DistinctLists(n) ==
  {<<a>> : a \in 0..(n - 1)}
    \cup {p \in {<<a, b>> : a \in 0..(n - 1), b \in 0..(n - 1)} :
            p[1] # p[2]}
    \cup {t \in {<<0, 1, 2>>, <<2, 0, 1>>} : n >= 3}

\* what the user interface and callers hand to the store
QubitCountInputs == {0, 2, 7}
InitialStateInputs == {<<>>}
ColumnInputs == -1..MaxColumn

\* gates dropped on the canvas, as <<name, targets, column>>: gates addGate
\* takes at every column, and one of each kind it refuses
PlacementInputs ==
  { <<p[1], p[2], column>> :
      p \in {<<"X", <<0>>>>, <<"H", <<0>>>>}, column \in ColumnInputs }
    \cup { <<"CNOT", <<0, 0>>, 0>>, <<"X", <<0, 1>>, 0>>, <<"X", <<-1>>, 0>>,
           <<"TOFFOLI", <<0, 1, 2>>, 0>>, <<"Y", <<0>>, 0>> }
MeasureInputs == {<<>>, <<0>>, <<6>>}

\* the draws the store's measure is followed on: the least one, and the ones
\* past one half
StoreDraws == {d \in Draws : d = Zero \/ Gt(d, <<1, 0, 1>>)}
LoadInputs ==
  { [numQubits |-> 2,
     gates |-> << createGateInstance(2, "H", <<0>>, 0),
                  createGateInstance(1, "CNOT", <<0, 1>>, 1) >>,
     initialState |-> <<0, 1, 1>>],
    [numQubits |-> 0, gates |-> <<>>, initialState |-> <<>>],
    [numQubits |-> 7, gates |-> <<>>, initialState |-> <<>>],
    [numQubits |-> 2,
     gates |-> << createGateInstance(1, "CNOT", <<0, 0>>, 0) >>,
     initialState |-> <<>>],
    [numQubits |-> 2,
     gates |-> << createGateInstance(1, "X", <<2>>, 0) >>,
     initialState |-> <<>>],
    [numQubits |-> 3,
     gates |-> << createGateInstance(1, "TOFFOLI", <<0, 1, 2>>, 0) >>,
     initialState |-> <<1, 1>>],
    [numQubits |-> 2,
     gates |-> << createGateInstance(1, "X", <<0, 1>>, 0) >>,
     initialState |-> <<>>] }


-----------------------------------------------------------------------------
(* State *)

VARIABLES
  numQubits,     \* store: numQubits
  initialState,  \* store: initialState
  gates,         \* store: gates
  timeline,      \* store: timeline
  currentStep,   \* store: currentStep
  measurement,   \* store: measurement (None when undefined)
  thrown,        \* the store action that threw last and its message
  collapses,     \* measurements the present timeline has taken
  hQubits,       \* engine caller: the register size it passes
  hState,        \* engine caller: the state buffer it holds
  hResult,       \* engine caller: the result of its last measureState call
  hThrown,       \* engine caller: the engine call that threw last, its message
  hBudget        \* engine caller: calls it still makes

storeVars ==
  <<numQubits, initialState, gates, timeline, currentStep, measurement, thrown,
    collapses>>
callerVars == <<hQubits, hState, hResult, hThrown, hBudget>>
vars == <<numQubits, initialState, gates, timeline, currentStep, measurement,
          thrown, collapses, hQubits, hState, hResult, hThrown, hBudget>>

NoThrow == [op |-> "", err |-> NoError]
Threw(op, err) == [op |-> op, err |-> err]

StoreInit ==
  /\ numQubits = initialQubits
  /\ initialState = normalizeInitialState(initialQubits, <<>>)
  /\ gates = <<>>
  /\ timeline = buildTimeline(initialQubits, <<>>,
                              normalizeInitialState(initialQubits, <<>>)).timeline
  /\ currentStep = 0
  /\ measurement = None
  /\ thrown = NoThrow
  /\ collapses = 0

\* a store action that throws: the store keeps its state
StoreThrows(op, err) ==
  /\ thrown' = Threw(op, err)
  /\ UNCHANGED <<numQubits, initialState, gates, timeline, currentStep,
                 measurement, collapses>>

-----------------------------------------------------------------------------
(* useCircuitStore.ts: actions *)

setNumQubits(value) ==
  /\ UNCHANGED callerVars
  /\ IF enforceQubitLimit(value) # NoError
       THEN StoreThrows("setNumQubits", enforceQubitLimit(value))
     ELSE
       \E nextInitialState \in {normalizeInitialState(value, initialState)} :
         /\ numQubits' = value
         /\ initialState' = nextInitialState
         /\ gates' = <<>>
         /\ timeline' = buildTimeline(value, <<>>, nextInitialState).timeline
         /\ currentStep' = 0
         /\ measurement' = None
         /\ thrown' = NoThrow
         /\ collapses' = 0

setInitialState(state) ==
  /\ UNCHANGED callerVars
  /\ \E nextInitialState \in {normalizeInitialState(numQubits, state)} :
     \E built \in {buildTimeline(numQubits, gates, nextInitialState)} :
       IF built.err # NoError
         THEN StoreThrows("setInitialState", built.err)
       ELSE /\ initialState' = nextInitialState
            /\ timeline' = built.timeline
            /\ currentStep' = Min(currentStep, Len(built.timeline) - 1)
            /\ measurement' = None
            /\ thrown' = NoThrow
            /\ collapses' = 0
            /\ UNCHANGED <<numQubits, gates>>

addGate(id, gateName, targets, column) ==
  /\ UNCHANGED callerVars
  /\ IF enforceTargets(targets, numQubits) # NoError
       THEN StoreThrows("addGate", enforceTargets(targets, numQubits))
     ELSE
       \E nextGates \in {Append(gates,
                                createGateInstance(id, gateName, targets,
                                                   Max(0, column)))} :
       \E built \in {buildTimeline(numQubits, nextGates, initialState)} :
         IF built.err # NoError
           THEN StoreThrows("addGate", built.err)
         ELSE /\ gates' = nextGates
              /\ timeline' = built.timeline
              /\ currentStep' = Min(currentStep, Len(built.timeline) - 1)
              /\ measurement' = None
              /\ thrown' = NoThrow
              /\ collapses' = 0
              /\ UNCHANGED <<numQubits, initialState>>

\* the removal that keeps the timeline it finds
removeGate_keepsTimeline(id) ==
  /\ UNCHANGED callerVars
  /\ gates' = SelectSeq(gates, LAMBDA g : g.id # id)
  /\ thrown' = NoThrow
  /\ collapses' = 0
  /\ UNCHANGED <<numQubits, initialState, timeline, currentStep, measurement>>

removeGate(id) ==
  /\ UNCHANGED callerVars
  /\ \E nextGates \in {SelectSeq(gates, LAMBDA g : g.id # id)} :
     \E built \in {buildTimeline(numQubits, nextGates, initialState)} :
       IF built.err # NoError
         THEN StoreThrows("removeGate", built.err)
       ELSE /\ gates' = nextGates
            /\ timeline' = built.timeline
            /\ currentStep' = Min(currentStep, Len(built.timeline) - 1)
            /\ thrown' = NoThrow
            /\ collapses' = 0
            /\ UNCHANGED <<numQubits, initialState, measurement>>

moveGate(id, column) ==
  /\ UNCHANGED callerVars
  /\ IF ~\E i \in DOMAIN gates : gates[i].id = id
       THEN /\ thrown' = NoThrow
            /\ UNCHANGED <<numQubits, initialState, gates, timeline,
                           currentStep, measurement, collapses>>
     ELSE
       \E target \in {CHOOSE i \in DOMAIN gates :
                        /\ gates[i].id = id
                        /\ \A j \in 1..(i - 1) : gates[j].id # id} :
       \E nextGates \in {[gates EXCEPT ![target].column = Max(0, column)]} :
       \E built \in {buildTimeline(numQubits, nextGates, initialState)} :
         IF built.err # NoError
           THEN StoreThrows("moveGate", built.err)
         ELSE /\ gates' = nextGates
              /\ timeline' = built.timeline
              /\ thrown' = NoThrow
              /\ collapses' = 0
              /\ UNCHANGED <<numQubits, initialState, currentStep,
                             measurement>>

resetCircuit ==
  /\ UNCHANGED callerVars
  /\ gates' = <<>>
  /\ timeline' = buildTimeline(numQubits, <<>>, initialState).timeline
  /\ currentStep' = 0
  /\ measurement' = None
  /\ thrown' = NoThrow
  /\ collapses' = 0
  /\ UNCHANGED <<numQubits, initialState>>

\* a step forward that leaves the measurement on display
stepForward_keepsMeasurement ==
  /\ UNCHANGED callerVars
  /\ currentStep' = Min(Len(timeline) - 1, currentStep + 1)
  /\ thrown' = NoThrow
  /\ UNCHANGED <<numQubits, initialState, gates, timeline, collapses,
                 measurement>>

stepForward ==
  /\ UNCHANGED callerVars
  /\ currentStep' = Min(Len(timeline) - 1, currentStep + 1)
  /\ measurement' = None
  /\ thrown' = NoThrow
  /\ UNCHANGED <<numQubits, initialState, gates, timeline, collapses>>

stepBackward ==
  /\ UNCHANGED callerVars
  /\ currentStep' = Max(0, currentStep - 1)
  /\ measurement' = None
  /\ thrown' = NoThrow
  /\ UNCHANGED <<numQubits, initialState, gates, timeline, collapses>>

jumpToStep(step) ==
  /\ UNCHANGED callerVars
  /\ currentStep' = Max(0, Min(step, Len(timeline) - 1))
  /\ measurement' = None
  /\ thrown' = NoThrow
  /\ UNCHANGED <<numQubits, initialState, gates, timeline, collapses>>

\* draft.timeline[draft.currentStep]?.column ?? -1
columnOrMinusOne(entry) == IF entry.column = None THEN -1 ELSE entry.column[1]

\* the buffers of rebuildFutureTimeline: working is a clone of the base
\* state, every group is applied to it in place, and every entry pushed holds
\* a clone of it
RECURSIVE rebuildBuffers(_, _, _, _)
rebuildBuffers(rounds, working, top, owners) ==
  IF rounds <= 0 THEN owners
  ELSE With(cloneBuffer(working, top),
            LAMBDA pushed :
              rebuildBuffers(rounds - 1, working, Max(top, pushed),
                             Append(owners, pushed)))

\* the buffers of measure at step: working is a clone of the entry's state,
\* measureState collapses a clone of working in place and returns it, the
\* base entry holds a clone of that, and the future is rebuilt from a clone
\* of the base entry's state.  old are the buffers of the timeline so far.
measureBuffers(old, step, rounds) ==
  With(CHOOSE m \in {old[i] : i \in DOMAIN old} :
         \A i \in DOMAIN old : old[i] <= m,
       LAMBDA top :
  With(cloneBuffer(old[step + 1], top),
       LAMBDA working :
  With(cloneBuffer(working, Max(top, working)),
       LAMBDA collapsed :
  With(cloneBuffer(collapsed, Max(Max(top, working), collapsed)),
       LAMBDA base :
  With(cloneBuffer(base, Max(Max(Max(top, working), collapsed), base)),
       LAMBDA future :
         [owners |-> rebuildBuffers(rounds, future,
                                    Max(Max(Max(Max(top, working), collapsed),
                                            base), future),
                                    SubSeq(old, 1, step) \o <<base>>),
          written |-> {collapsed}
                        \cup (IF rounds > 0 THEN {future} ELSE {})])))))

\* the timeline measure installs: [err, timeline, written]
measuredTimeline(tl, step, gateList, n, nextState) ==
  With(columnOrMinusOne(tl[step + 1]),
       LAMBDA currentColumn :
  With([tl[step + 1] EXCEPT !.state = cloneState(nextState)],
       LAMBDA baseEntry :
  With(rebuildFutureTimeline(baseEntry.state,
                             SelectSeq(orderGates(gateList),
                                       LAMBDA g : g.column > currentColumn),
                             step, n),
       LAMBDA rebuilt :
  With(measureBuffers([i \in DOMAIN tl |-> tl[i].buffer], step,
                      Len(rebuilt.entries)),
       LAMBDA buffers :
  With(tagTimeline(SubSeq(tl, 1, step) \o <<baseEntry>> \o rebuilt.entries,
                   buffers.owners, buffers.written),
       LAMBDA tagged :
         [err |-> rebuilt.err,
          timeline |-> tagged.timeline,
          written |-> tagged.written])))))

\* random is the value Math.random() returns inside measureState.  The step
\* is taken where 1 / Math.sqrt(normalization) is a number of the ring.
\* the early return: timeline[currentStep] is undefined
measureReturnsUndefined == currentStep + 1 \notin DOMAIN timeline

measure(qubits, random) ==
  /\ UNCHANGED callerVars
  /\ ~measureReturnsUndefined
       => measureRepresentable(timeline[currentStep + 1].state, qubits,
                               numQubits, random)
  /\ IF measureReturnsUndefined
       THEN /\ thrown' = NoThrow
            /\ UNCHANGED <<numQubits, initialState, gates, timeline,
                           currentStep, measurement, collapses>>
     ELSE
       \E measured \in {measureState(cloneState(timeline[currentStep + 1].state),
                                     qubits, numQubits, random)} :
         IF measured.err # NoError
           THEN StoreThrows("measure", measured.err)
         ELSE
           \E next \in {measuredTimeline(timeline, currentStep, gates,
                                         numQubits, measured.nextState)} :
             IF next.err # NoError
               THEN StoreThrows("measure", next.err)
             ELSE /\ timeline' = next.timeline
                  /\ measurement' = measured.result
                  /\ thrown' = NoThrow
                  /\ collapses' = collapses + 1
                  /\ UNCHANGED <<numQubits, initialState, gates,
                                 currentStep>>

\* what loadCircuit sets the store to: [err, numQubits, initialState, gates,
\* timeline], err the message thrown (the store is then left as it was)
loadedCircuit(definition) ==
  IF enforceQubitLimit(definition.numQubits) # NoError
    THEN [err |-> enforceQubitLimit(definition.numQubits)]
  ELSE
    With(normalizeInitialState(definition.numQubits, definition.initialState),
         LAMBDA nextInitialState :
    With(buildTimeline(definition.numQubits, definition.gates,
                       nextInitialState),
         LAMBDA built :
           [err |-> built.err,
            numQubits |-> definition.numQubits,
            initialState |-> nextInitialState,
            gates |-> definition.gates,
            timeline |-> built.timeline]))

loadCircuit(definition) ==
  /\ UNCHANGED callerVars
  /\ \E loaded \in {loadedCircuit(definition)} :
       IF loaded.err # NoError
         THEN StoreThrows("loadCircuit", loaded.err)
       ELSE /\ numQubits' = loaded.numQubits
            /\ initialState' = loaded.initialState
            /\ gates' = loaded.gates
            /\ timeline' = loaded.timeline
            /\ currentStep' = 0
            /\ measurement' = None
            /\ thrown' = NoThrow
            /\ collapses' = 0

-----------------------------------------------------------------------------
(* serialization: the JSON text of a circuit and its validation             *)

\* the export that leaves the initial bits out
exportCircuit_gatesOnly ==
  [numQubits |-> numQubits, gates |-> gates, initialState |-> <<>>]

\* exportCircuit: the store's qubit count, gates and initial bits
exportCircuit ==
  [numQubits |-> numQubits, gates |-> gates, initialState |-> initialState]

\* A JSON text is held as the tree of its values: a number is its numeral
\* (sign and decimal digits), a string its characters, a list its items, an
\* object its keys; a key that the text does not have reads as Undefined.
Undefined == [undefined |-> TRUE]
Text(s) == [string |-> s]
List(items) == [array |-> items]

\* the decimal digits JSON.stringify writes for a whole number
RECURSIVE digitsOf(_)
digitsOf(n) ==
  IF n < 10 THEN <<n>> ELSE Append(digitsOf(n \div 10), n % 10)

Numeral(n) ==
  [numeral |-> [negative |-> n < 0,
                digits |-> digitsOf(IF n < 0 THEN 0 - n ELSE n)]]

\* JSON.stringify of a gate object: an id the object does not have is left out
gateText(gate) ==
  [id |-> IF gate.id = NoId THEN Undefined ELSE Text(gate.id),
   name |-> Text(gate.name),
   targets |-> List([j \in DOMAIN gate.targets |-> Numeral(gate.targets[j])]),
   column |-> Numeral(gate.column)]

\* JSON.stringify(definition)
stringify(definition) ==
  [numQubits |-> Numeral(definition.numQubits),
   gates |-> List([i \in DOMAIN definition.gates |->
                     gateText(definition.gates[i])]),
   initialState |-> List([i \in DOMAIN definition.initialState |->
                            Numeral(definition.initialState[i])])]

\* the number a numeral stands for
RECURSIVE valueOf(_)
valueOf(digits) ==
  IF digits = <<>> THEN 0
  ELSE 10 * valueOf(SubSeq(digits, 1, Len(digits) - 1)) + digits[Len(digits)]

\* JSON.parse: numerals become numbers, lists and objects are read item by
\* item, strings stay
RECURSIVE parse(_)
parse(text) ==
  IF "numeral" \in DOMAIN text
    THEN [number |-> IF text.numeral.negative
                       THEN 0 - valueOf(text.numeral.digits)
                       ELSE valueOf(text.numeral.digits)]
  ELSE IF "array" \in DOMAIN text
    THEN [array |-> [i \in DOMAIN text.array |-> parse(text.array[i])]]
  ELSE IF "string" \in DOMAIN text \/ "undefined" \in DOMAIN text
    THEN text
  ELSE [key \in DOMAIN text |-> parse(text[key])]

\* Array.isArray(value), typeof value === 'number'
IsArray(value) == "array" \in DOMAIN value
IsNumber(value) == "number" \in DOMAIN value

MissingGates == "Circuit payload missing gates array"
UnsupportedGate == "Unsupported gate"
MissingTargets == "Gate is missing targets"
InvalidTarget == "Circuit contains invalid target index"
InvalidColumn == "Gate has invalid column index"

\* input.gates.forEach of validateCircuitDefinition, from gate i on: the
\* message of the first throw.  A column that is not there is not < 0.
RECURSIVE validateGates(_, _)
validateGates(input, i) ==
  IF i > Len(input.gates.array) THEN NoError
  ELSE
    With(input.gates.array[i],
         LAMBDA gate :
           IF ~InLibrary(gate.name.string) THEN UnsupportedGate
           ELSE IF \/ ~IsArray(gate.targets)
                   \/ Len(gate.targets.array)
                        # GATE_LIBRARY(gate.name.string).arity
             THEN MissingTargets
           ELSE IF \E j \in DOMAIN gate.targets.array :
                     \/ ~IsNumber(gate.targets.array[j])
                     \/ gate.targets.array[j].number < 0
                     \/ gate.targets.array[j].number >= input.numQubits.number
             THEN InvalidTarget
           ELSE IF IsNumber(gate.column) /\ gate.column.number < 0
             THEN InvalidColumn
           ELSE validateGates(input, i + 1))

\* the message validateCircuitDefinition throws, NoError when it returns.
\* input.numQubits is a number in every payload followed here.
validateCircuitDefinition(input) ==
  IF enforceQubitLimit(input.numQubits.number) # NoError THEN QubitRange
  ELSE IF ~IsArray(input.gates) THEN MissingGates
  ELSE validateGates(input, 1)

\* the parsed object read as a CircuitDefinition, as its callers read it
\* once validation has returned
asDefinition(parsed) ==
  [numQubits |-> parsed.numQubits.number,
   gates |-> [i \in DOMAIN parsed.gates.array |->
                With(parsed.gates.array[i],
                     LAMBDA gate :
                       [id |-> IF "string" \in DOMAIN gate.id
                                 THEN gate.id.string ELSE NoId,
                        name |-> gate.name.string,
                        targets |-> [j \in DOMAIN gate.targets.array |->
                                       gate.targets.array[j].number],
                        column |-> gate.column.number])],
   initialState |-> IF IsArray(parsed.initialState)
                      THEN [i \in DOMAIN parsed.initialState.array |->
                              parsed.initialState.array[i].number]
                      ELSE <<>>]

\* parseCircuitJSON: [err, definition], err the message validation throws
parseCircuitJSON(raw) ==
  With(parse(raw),
       LAMBDA parsed :
         IF validateCircuitDefinition(parsed) # NoError
           THEN [err |-> validateCircuitDefinition(parsed)]
         ELSE [err |-> NoError, definition |-> asDefinition(parsed)])

\* a text of a circuit with these gates
circuitText(n, gateTexts) ==
  [numQubits |-> Numeral(n), gates |-> List(gateTexts),
   initialState |-> Undefined]

\* the text of a gate object, id left out when it is NoId
gateObject(id, name, targets, column) ==
  gateText(createGateInstance(id, name, targets, column))

\* the files and links a user opens: a circuit as the application exports
\* it, one payload for each check of the validation, and payloads written by
\* hand that no check refuses
ImportInputs ==
  { stringify([numQubits |-> 2,
               gates |-> << createGateInstance(2, "H", <<0>>, 0),
                            createGateInstance(1, "CNOT", <<0, 1>>, 1) >>,
               initialState |-> <<0, 1>>]),
    circuitText(0, <<>>),
    circuitText(7, <<>>),
    [numQubits |-> Numeral(2), gates |-> Undefined,
     initialState |-> Undefined],
    [numQubits |-> Numeral(2), gates |-> Text("none"),
     initialState |-> Undefined],
    circuitText(3, <<gateObject(1, "TOFFOLI", <<0, 1, 2>>, 0)>>),
    circuitText(2, <<gateObject(1, "X", <<0, 1>>, 0)>>),
    circuitText(2, <<[gateObject(1, "X", <<0>>, 0)
                        EXCEPT !.targets = Undefined]>>),
    circuitText(2, <<gateObject(1, "X", <<2>>, 0)>>),
    circuitText(2, <<gateObject(1, "X", <<-1>>, 0)>>),
    circuitText(2, <<[gateObject(1, "X", <<0>>, 0)
                        EXCEPT !.targets = List(<<Text("0")>>)]>>),
    circuitText(2, <<gateObject(1, "X", <<0>>, -1)>>),
    circuitText(2, <<gateObject(1, "CNOT", <<0, 0>>, 0)>>),
    circuitText(2, <<gateObject(NoId, "X", <<0>>, 0),
                     gateObject(NoId, "X", <<1>>, 0)>>) }

\* a saved circuit, a shared link or a file opened: the text is parsed and
\* validated, and the definition that comes back is loaded
importCircuit(raw) ==
  \E parsed \in {parseCircuitJSON(raw)} :
    IF parsed.err # NoError
      THEN /\ StoreThrows("parseCircuitJSON", parsed.err)
           /\ UNCHANGED callerVars
    ELSE loadCircuit(parsed.definition)

-----------------------------------------------------------------------------
(* A caller of the engine: it holds one state buffer, applies gates to it in *)
(* place, measures it, and may carry on with the state a measurement         *)
(* returned (as the engine's tests do).                                      *)

BitLists(n) == [1..n -> {0, 1}]

\* qubit lists a caller measures: up to two qubits from 0..top, and lists
\* that repeat a qubit
MeasureLists(top) ==
  {<<>>} \cup {<<a>> : a \in 0..top}
         \cup {<<a, b>> : a \in 0..top, b \in 0..top}
         \cup {<<a, b, a>> : a \in 0..top, b \in 0..top}

CallerInit(sizes, budget) ==
  /\ hQubits \in sizes
  /\ hState \in {createBasisState(hQubits, bits) : bits \in BitLists(hQubits)}
  /\ hResult = None
  /\ hThrown = NoThrow
  /\ hBudget = budget

\* the store's program makes no engine calls of its own caller
CallerIdle ==
  /\ hQubits = 1
  /\ hState = createZeroState(1)
  /\ hResult = None
  /\ hThrown = NoThrow
  /\ hBudget = 0

callApplyGate(gateName, targets) ==
  /\ hBudget > 0
  /\ \E applied \in {applyGateToState(hState, gateName, targets, hQubits)} :
        /\ hState' = applied.state
        /\ hThrown' = IF applied.err = NoError THEN NoThrow
                      ELSE Threw("applyGateToState", applied.err)
  /\ hBudget' = hBudget - 1
  /\ UNCHANGED <<hQubits, hResult>>
  /\ UNCHANGED storeVars

callMeasureState(qubits, random) ==
  /\ hBudget > 0
  /\ measureRepresentable(hState, qubits, hQubits, random)
  /\ \E measured \in {measureState(hState, qubits, hQubits, random)} :
        /\ hState' = measured.state
        /\ hResult' = IF measured.err = NoError
                        THEN Some([nextState |-> measured.nextState,
                                   result |-> measured.result[1]])
                        ELSE None
        /\ hThrown' = IF measured.err = NoError THEN NoThrow
                      ELSE Threw("measureState", measured.err)
  /\ hBudget' = hBudget - 1
  /\ UNCHANGED hQubits
  /\ UNCHANGED storeVars

\* the caller carries on with the collapsed state
useNextState ==
  /\ hResult # None
  /\ hState # hResult[1].nextState
  /\ hState' = hResult[1].nextState
  /\ UNCHANGED <<hQubits, hResult, hThrown, hBudget>>
  /\ UNCHANGED storeVars

-----------------------------------------------------------------------------
(* Specifications *)

Init == StoreInit /\ CallerIdle

\* the code that called the store catches the exception
catchError ==
  /\ thrown # NoThrow
  /\ thrown' = NoThrow
  /\ UNCHANGED <<numQubits, initialState, gates, timeline, currentStep,
                 measurement, collapses>>
  /\ UNCHANGED callerVars

\* a call into the store: none is made while an exception propagates
StoreCall ==
  \/ /\ thrown = NoThrow
     /\ \E value \in QubitCountInputs : setNumQubits(value)
  \/ /\ thrown = NoThrow
     /\ \E state \in InitialStateInputs : setInitialState(state)
  \/ /\ thrown = NoThrow
     /\ Len(gates) < MaxGates
     /\ \E id \in GateIds \ {gates[i].id : i \in DOMAIN gates},
           p \in PlacementInputs :
          addGate(id, p[1], p[2], p[3])
  \/ /\ thrown = NoThrow
     /\ \E id \in GateIds : removeGate(id)
  \/ /\ thrown = NoThrow
     /\ \E id \in GateIds, column \in ColumnInputs : moveGate(id, column)
  \/ /\ thrown = NoThrow
     /\ resetCircuit
  \/ /\ thrown = NoThrow
     /\ stepForward
  \/ /\ thrown = NoThrow
     /\ stepBackward
  \/ /\ thrown = NoThrow
     /\ \E step \in -1..(MaxGates + 2) : jumpToStep(step)
  \/ /\ thrown = NoThrow
     /\ \E qubits \in MeasureInputs, random \in StoreDraws :
          /\ \/ collapses < MaxCollapses
             \/ measureThrows(qubits, numQubits) # NoError
          /\ measure(qubits, random)
  \/ /\ thrown = NoThrow
     /\ \E definition \in LoadInputs : loadCircuit(definition)

Next == StoreCall \/ catchError

Spec == Init /\ [][Next]_vars

\* the engine called on small registers, several calls in a row
EngineNext ==
  \/ \E gateName \in NameInputs, targets \in TargetLists(hQubits) :
       callApplyGate(gateName, targets)
  \/ \E qubits \in MeasureLists(hQubits), random \in Draws :
       callMeasureState(qubits, random)
  \/ useNextState

EngineInit == StoreInit /\ CallerInit(1..MaxRegister, MaxCalls)

SpecEngine == EngineInit /\ [][EngineNext]_vars

\* the engine called once on every basis state of every register size
BasisInit == StoreInit /\ CallerInit(MinQubits..MaxQubits, 1)

\* a one-qubit gate, a two-qubit gate, and the names outside the library
BasisNames == {"X", "CNOT", "TOFFOLI", "Y"}

BasisNext ==
  \E gateName \in BasisNames, targets \in DistinctLists(hQubits) :
    callApplyGate(gateName, targets)

SpecBasis == BasisInit /\ [][BasisNext]_vars

\* the application as its user drives it: circuits come in through the
\* validation only, and are edited on the canvas
ImportNext ==
  \/ /\ thrown = NoThrow
     /\ \E raw \in ImportInputs : importCircuit(raw)
  \/ /\ thrown = NoThrow
     /\ \E value \in QubitCountInputs : setNumQubits(value)
  \/ /\ thrown = NoThrow
     /\ Len(gates) < MaxGates
     /\ \E id \in GateIds \ {gates[i].id : i \in DOMAIN gates},
           p \in PlacementInputs :
          addGate(id, p[1], p[2], p[3])
  \/ /\ thrown = NoThrow
     /\ \E id \in GateIds : removeGate(id)
  \/ /\ thrown = NoThrow
     /\ \E id \in GateIds, column \in ColumnInputs : moveGate(id, column)
  \/ /\ thrown = NoThrow
     /\ resetCircuit
  \/ catchError

SpecImport == Init /\ [][ImportNext]_vars


-----------------------------------------------------------------------------
(* Properties of the timeline                                               *)

\* C1.  buildTimeline(numQubits, gates, initialBits) returns exactly 1 + D
\* entries, D the number of distinct columns among the gates: entry 0 is the
\* initial basis state and carries no gate; for k >= 1 entry k carries exactly
\* the gates of the k-th smallest column and its state is entry k-1's state
\* after all of them.  It is stated of the values the store holds, in every
\* state the store reaches.
C1_OneEntryPerColumn ==
  LET built == buildTimeline(numQubits, gates, initialState)
      columns == sortedSet({gates[i].column : i \in DOMAIN gates})
      carried(entry) ==
        IF entry.gates # None
          THEN {entry.gates[1][i] : i \in DOMAIN entry.gates[1]}
        ELSE IF entry.gate # None THEN {entry.gate[1]}
        ELSE {}
  IN built.err = NoError =>
       /\ Len(built.timeline) = 1 + Len(columns)
       /\ carried(built.timeline[1]) = {}
       /\ built.timeline[1].state = createBasisState(numQubits, initialState)
       /\ \A k \in 1..Len(columns) :
            LET group == columnGroup(orderGates(gates), columns[k])
                before == built.timeline[k].state
            IN /\ carried(built.timeline[k + 1])
                    = {group[i] : i \in DOMAIN group}
               /\ built.timeline[k + 1].state
                    = applyGroup(before, group, 1, numQubits).state

\* C2.  When the store's measure succeeds at step k, the new timeline keeps
\* entries 0..k-1, holds the collapsed state at entry k, and continues with one
\* entry per distinct column greater than entry k's column, obtained by
\* replaying from the collapsed state only the gates of those columns (entry
\* 0 has no column, so at step 0 every gate is replayed).
C2_MeasureReplaysLaterColumns ==
  [][collapses' = collapses + 1 =>
       LET k == currentStep
           entry == timeline[k + 1]
           entryColumn == IF entry.column # None THEN entry.column[1]
                          ELSE IF entry.gate # None THEN entry.gate[1].column
                          ELSE -1
           collapsed == timeline'[k + 1].state
           later == SelectSeq(orderGates(gates),
                              LAMBDA g : g.column > entryColumn)
           replay == rebuildFutureTimeline(collapsed, later, k, numQubits)
       IN /\ Len(timeline') = k + 1 + Len(replay.entries)
          /\ SubSeq(timeline', 1, k) = SubSeq(timeline, 1, k)
          /\ \A i \in 1..Len(replay.entries) :
               timeline'[k + 1 + i].state = replay.entries[i].state
    ]_vars

-----------------------------------------------------------------------------
(* Properties of the engine's measurement                                   *)

\* C3.  Measurement is repeatable: when measureState(state, Q, n) has returned
\* (nextState, result), measureState(nextState, Q, n) returns the outcome of
\* result under every draw, and a nextState equal to the one it was given.
C3_MeasurementRepeatable ==
  hResult # None =>
    LET first == hResult[1]
        Q == first.result.measuredQubits
    IN \A random \in Draws :
         measureRepresentable(first.nextState, Q, hQubits, random) =>
           LET again == measureState(first.nextState, Q, hQubits, random)
           IN /\ again.err = NoError
              /\ again.result[1].outcome = first.result.outcome
              /\ again.nextState = first.nextState


-----------------------------------------------------------------------------
(* Properties of gate application                                           *)

\* C4.  applyGateToState preserves the total probability of the state: for
\* every name a caller can pass and every list of distinct in-range targets,
\* the sum of |amplitude|^2 over all basis indices is the same after the call
\* as before it (a call that throws leaves the buffer as it was).  The states
\* are the ones a caller reaches from a basis state, whose total is 1, by
\* gates and measurements.
C4_ProbabilityPreserved ==
  LET total(state) ==
        sumLoop([i \in 1..Len(state.real) |->
                   magnitudeSquared(state.real[i], state.imag[i])], 0, Zero)
      before == total(hState)
  IN /\ hBudget = MaxCalls => before = One
     /\ ~IsNaN(before) =>
          \A gateName \in NameInputs, targets \in DistinctLists(hQubits) :
            total(applyGateToState(hState, gateName, targets, hQubits).state)
              = before

\* C4: a caller holds a superposition that a gate has produced
C4_SuperpositionReached ==
  /\ hBudget < MaxCalls
  /\ hThrown = NoThrow
  /\ hResult = None
  /\ \E i \in DOMAIN hState.real, j \in DOMAIN hState.real :
       i # j /\ hState.real[i] # Zero /\ hState.real[j] # Zero

\* C5.  For every register of 2 to 6 qubits, every basis state b and every
\* ordered pair of distinct qubits (c, t), applyGateToState with CNOT and
\* targets [c, t] returns and leaves exactly the basis state b XOR
\* (bit c of b) * 2^t: the first target is the control, the second is
\* flipped, every other bit is kept.
C5_CnotOnBasisStates ==
  (hBudget > 0 /\ hQubits >= 2) =>
    LET size == Len(hState.real)
        b == CHOOSE i \in 0..(size - 1) : hState.real[i + 1] = One
    IN \A c \in 0..(hQubits - 1), t \in 0..(hQubits - 1) :
         c # t =>
           LET applied == applyGateToState(hState, "CNOT", <<c, t>>, hQubits)
               flipped == IF Bit(b, c) = 0 THEN b
                          ELSE IF Bit(b, t) = 1 THEN b - Pow2(t)
                          ELSE b + Pow2(t)
           IN /\ applied.err = NoError
              /\ \A i \in 0..(size - 1) :
                   /\ applied.state.real[i + 1]
                        = (IF i = flipped THEN One ELSE Zero)
                   /\ applied.state.imag[i + 1] = Zero

\* C5: a call on six qubits has returned and left the basis state 100001
C5_SixQubitCallReturned ==
  /\ hQubits = MaxQubits
  /\ hBudget = 0
  /\ hThrown = NoThrow
  /\ hState.real[34] = One

\* C6.  On a register of at least 3 qubits, applying TOFFOLI with targets
\* [c1, c2, t] to a basis state b leaves the basis state that differs from b
\* in bit t exactly when bits c1 and c2 of b are both 1.
C6_ToffoliOnBasisStates ==
  (hBudget > 0 /\ hQubits >= 3) =>
    LET size == Len(hState.real)
        b == CHOOSE i \in 0..(size - 1) : hState.real[i + 1] = One
    IN \A targets \in {l \in DistinctLists(hQubits) : Len(l) = 3} :
         LET applied == applyGateToState(hState, "TOFFOLI", targets, hQubits)
             t == targets[3]
             flipped == IF Bit(b, targets[1]) = 0 \/ Bit(b, targets[2]) = 0
                          THEN b
                        ELSE IF Bit(b, t) = 1 THEN b - Pow2(t)
                        ELSE b + Pow2(t)
         IN \A i \in 0..(size - 1) :
              /\ applied.state.real[i + 1] = (IF i = flipped THEN One ELSE Zero)
              /\ applied.state.imag[i + 1] = Zero

\* C7.  The gate library is exactly the names X, Z, H, S, T, CNOT, SWAP and
\* TOFFOLI, each with one definition, of arity 1 for X, Z, H, S, T, 2 for
\* CNOT and SWAP, 3 for TOFFOLI; applying a gate under any other name fails
\* with the unknown-gate error.
C7_ClosedLibrary ==
  LET closed == {"X", "Z", "H", "S", "T", "CNOT", "SWAP", "TOFFOLI"}
      arityOf(name) == IF name \in {"CNOT", "SWAP"} THEN 2
                       ELSE IF name = "TOFFOLI" THEN 3 ELSE 1
  IN /\ {gatePalette[i].name : i \in DOMAIN gatePalette} = closed
     /\ \A name \in closed :
          /\ Cardinality({i \in DOMAIN gatePalette :
                            gatePalette[i].name = name}) = 1
          /\ GATE_LIBRARY(name).arity = arityOf(name)
     /\ \A name \in NameInputs \ closed, targets \in TargetLists(hQubits) :
          applyGateToState(hState, name, targets, hQubits).err = UnknownGate

-----------------------------------------------------------------------------
(* Properties of error handling                                             *)

\* C8.  measureState fails when the qubit list is empty and fails when a
\* listed index is below 0 or not below numQubits; in both cases it returns
\* no nextState and no result, and the caller's state is as it was.
C8_MeasureRejectsBadSelection ==
  \A qubits \in MeasureLists(hQubits) \cup {<<-1>>, <<0, -1>>},
     random \in Draws :
    (\/ qubits = <<>>
     \/ \E i \in DOMAIN qubits : qubits[i] < 0 \/ qubits[i] >= hQubits) =>
      LET measured == measureState(hState, qubits, hQubits, random)
      IN /\ measured.err # NoError
         /\ measured.nextState = None
         /\ measured.result = None
         /\ measured.state = hState

\* C8: a measureState call has thrown for an index outside the register
C8_MeasureThrew ==
  /\ hThrown = Threw("measureState", MeasureOutOfRange)
  /\ hResult = None

\* C9.  enforceQubitLimit(n) fails exactly when n < 1 or n > 6; setNumQubits
\* and loadCircuit called with such a count fail and leave numQubits, gates,
\* timeline, currentStep and measurement as they were; numQubits stays within
\* 1..6.
C9_QubitLimit ==
  [][/\ \A n \in -2..9 :
          (enforceQubitLimit(n) # NoError) <=> (n < 1 \/ n > 6)
     /\ numQubits \in 1..6 /\ numQubits' \in 1..6
     /\ \A value \in QubitCountInputs :
          ((value < 1 \/ value > 6) /\ setNumQubits(value)) =>
            /\ thrown' = Threw("setNumQubits", QubitRange)
            /\ UNCHANGED <<numQubits, gates, timeline, currentStep,
                           measurement>>
     /\ \A definition \in LoadInputs :
          (/\ definition.numQubits < 1 \/ definition.numQubits > 6
           /\ loadCircuit(definition)) =>
            /\ thrown' = Threw("loadCircuit", QubitRange)
            /\ UNCHANGED <<numQubits, gates, timeline, currentStep,
                           measurement>>
     /\ \A op \in {"setNumQubits", "loadCircuit"} :
          (thrown = NoThrow /\ thrown' = Threw(op, QubitRange)) =>
            UNCHANGED <<numQubits, gates, timeline, currentStep,
                        measurement>>
    ]_vars

\* C9: loadCircuit has thrown for the qubit count of the definition
C9_LoadRejected == thrown = Threw("loadCircuit", QubitRange)

\* C10.  Each kind of invalid placement is rejected with its own error at
\* every entry point that applies or accepts a gate: a repeated target with
\* the duplicate-target error, a target outside [0, numQubits) with the
\* out-of-range error, a name outside the library with the unknown-gate error,
\* by applyGateToState, by the store's addGate and by loadCircuit, which also
\* rejects a qubit count of 0 or 7 with the range error.
C10_EachKindRejected ==
  [][LET repeats(targets) ==
           Cardinality({targets[i] : i \in DOMAIN targets}) # Len(targets)
         outside(targets, n) ==
           \E i \in DOMAIN targets : targets[i] < 0 \/ targets[i] >= n
         kind(name, targets, n) ==
           IF repeats(targets) THEN DuplicateTargets
           ELSE IF outside(targets, n) THEN TargetOutOfRange
           ELSE IF name \notin GateName THEN UnknownGate
           ELSE NoError
         invalid == {<<"CNOT", <<0, 0>>>>, <<"X", <<numQubits>>>>,
                     <<"Y", <<0>>>>}
     IN /\ \A p \in invalid :
             applyGateToState(timeline[currentStep + 1].state, p[1], p[2],
                              numQubits).err = kind(p[1], p[2], numQubits)
        /\ \A p \in PlacementInputs, id \in GateIds :
             (/\ kind(p[1], p[2], numQubits) # NoError
              /\ addGate(id, p[1], p[2], p[3])) =>
               thrown' = Threw("addGate", kind(p[1], p[2], numQubits))
        /\ \A definition \in LoadInputs :
             loadCircuit(definition) =>
               LET n == definition.numQubits
                   bad == {i \in DOMAIN definition.gates :
                             kind(definition.gates[i].name,
                                  definition.gates[i].targets, n) # NoError}
               IN IF n < 1 \/ n > 6
                    THEN thrown' = Threw("loadCircuit", QubitRange)
                  ELSE \A i \in bad :
                         thrown' = Threw("loadCircuit",
                                         kind(definition.gates[i].name,
                                              definition.gates[i].targets, n))
    ]_vars

\* C11.  applyGateToState fails with the unknown-gate error whenever gateName
\* is not in the library and with the arity error whenever the number of
\* targets differs from the gate's arity; both checks come before any write,
\* so the caller's buffer is as it was.  It is stated of every call a caller
\* can make on the buffer it holds.
C11_ChecksBeforeWrites ==
  \A gateName \in NameInputs, targets \in TargetLists(hQubits) :
    \E applied \in {applyGateToState(hState, gateName, targets, hQubits)} :
      IF ~InLibrary(gateName)
        THEN applied.err = UnknownGate /\ applied.state = hState
      ELSE IF Len(targets) # GATE_LIBRARY(gateName).arity
        THEN applied.err = ArityMismatch /\ applied.state = hState
      ELSE applied.err = NoError

\* C11: a call with the wrong number of targets has thrown and the caller
\* holds a basis state other than the zero state
C11_ArityCallThrew ==
  /\ hThrown = Threw("applyGateToState", ArityMismatch)
  /\ hBudget = MaxCalls - 1
  /\ hState.real[1] = Zero

-----------------------------------------------------------------------------
(* Properties of the timeline builder and of the basis states               *)

\* C12.  buildTimeline does not depend on the order of the array it is given:
\* for the gate instances the store holds, in every order of the array, it
\* returns the same outcome (the same error, or timelines equal entry by
\* entry: step, gate, column and every amplitude), and the array it was given
\* is after the call as it was before.
C12_OrderIndependent ==
  thrown = NoThrow =>
    LET places == DOMAIN gates
        orders == {f \in [places -> places] : \A i \in places :
                                                 \E j \in places : f[j] = i}
        built == buildTimeline(numQubits, gates, initialState)
    IN \A f \in orders :
         \E other \in {buildTimeline(numQubits, [i \in places |-> gates[f[i]]],
                                     initialState)} :
           /\ other.err = built.err
           /\ other.timeline = built.timeline
           /\ other.gates = [i \in places |-> gates[f[i]]]

\* C12: the store holds two gates of one column, the later id first
C12_SameColumnOutOfOrder ==
  /\ thrown = NoThrow
  /\ Len(gates) = 2
  /\ gates[1].column = gates[2].column
  /\ gates[1].id > gates[2].id
  /\ Len(timeline) = 3


\* C13: timeline entries never share state storage.  In every store state the
\* buffers of the entries are pairwise distinct, and none of them is a buffer
\* that a gate application (while the timeline is built or rebuilt) or a
\* collapse writes to in place; so a measurement at step k installs a
\* timeline whose entries before k are the entries that were there, and a
\* gate added to a timeline that holds no collapse leaves the amplitudes of
\* the entries before its place in the order as they were.
C13_EntriesShareNoBuffer ==
  /\ [](thrown = NoThrow =>
          /\ \A i, j \in DOMAIN timeline :
               timeline[i].buffer = timeline[j].buffer => i = j
          /\ LET built == buildTimeline(numQubits, gates, initialState)
             IN built.err = NoError => built.written = {}
          /\ \A qubits \in MeasureInputs, random \in StoreDraws :
               /\ currentStep + 1 \in DOMAIN timeline
               /\ measureRepresentable(timeline[currentStep + 1].state,
                                       qubits, numQubits, random)
               => LET measured ==
                        measureState(cloneState(timeline[currentStep + 1].state),
                                     qubits, numQubits, random)
                      next == measuredTimeline(timeline, currentStep, gates,
                                               numQubits, measured.nextState)
                  IN (measured.err = NoError /\ next.err = NoError) =>
                       /\ next.written = {}
                       /\ \A i, j \in DOMAIN next.timeline :
                            next.timeline[i].buffer = next.timeline[j].buffer
                              => i = j
                       /\ \A i \in 1..currentStep :
                            next.timeline[i] = timeline[i])
  /\ [][(thrown = NoThrow /\ thrown' = NoThrow) =>
          /\ collapses' = collapses + 1 =>
               \A i \in 1..currentStep : timeline'[i] = timeline[i]
          /\ (/\ Len(gates') = Len(gates) + 1
              /\ SubSeq(gates', 1, Len(gates)) = gates
              /\ numQubits' = numQubits
              /\ initialState' = initialState
              /\ collapses = 0) =>
               LET before == sortGates(gates)
                   after == sortGates(gates')
                   place == CHOOSE p \in 1..Len(after) :
                              /\ SubSeq(after, 1, p - 1)
                                   = SubSeq(before, 1, p - 1)
                              /\ p <= Len(before) => after[p] # before[p]
               IN \A i \in 1..place :
                    timeline'[i].state = timeline[i].state]_vars

\* a measurement was taken at a step after the first, with an entry behind it
\* and an entry ahead of it
C13_MeasuredMidTimeline ==
  /\ thrown = NoThrow
  /\ collapses = 1
  /\ measurement # None
  /\ currentStep >= 1
  /\ Len(timeline) >= currentStep + 2


\* C14: for every n in 1..6 and every initial bit list, createBasisState(n,
\* bits) is a state of 2^n amplitudes, exactly 1 + 0i at the index whose
\* binary digit q is 1 exactly when bits[q] is 1 (q < n) and exactly 0 at
\* every other index: bits not given, bits past position n - 1 and values
\* other than 1 count as 0, and with no bits the index is 0.  The lists are
\* those of up to n + 1 values out of 0, 1 and 2, made once for each size of
\* register (in the state that holds its zero state); every state a caller
\* starts from is one of them.
C14_BasisState ==
  (hBudget = 1 /\ hThrown = NoThrow) =>
    LET n == hQubits
        lists == UNION {[1..len -> {0, 1, 2}] : len \in 0..(n + 1)}
        digit(i, q) == (i \div Pow2(q)) % 2
        place(bits) ==
          CHOOSE i \in 0..(Pow2(n) - 1) :
            \A q \in 0..(n - 1) :
              digit(i, q) = 1 <=> (q < Len(bits) /\ bits[q + 1] = 1)
        unit(at) == [i \in 1..Pow2(n) |-> IF i = at + 1 THEN One ELSE Zero]
        none == [i \in 1..Pow2(n) |-> Zero]
    IN /\ hState = createZeroState(n) =>
            \A bits \in lists :
              createBasisState(n, bits)
                = [real |-> unit(place(bits)), imag |-> none]
       /\ createBasisState(n, <<>>) = [real |-> unit(0), imag |-> none]
       /\ createZeroState(n) = createBasisState(n, <<>>)
       /\ \E bits \in [1..n -> {0, 1}] :
            hState = [real |-> unit(place(bits)), imag |-> none]

\* the six-qubit register made with every bit set: amplitude 1 at index 63
C14_AllOnesSixQubits ==
  /\ hQubits = MaxQubits
  /\ hBudget = 1
  /\ hThrown = NoThrow
  /\ hState.real[Pow2(MaxQubits)] = One


-----------------------------------------------------------------------------
(* Properties of export, import and validation                              *)

\* C15: export/load round trip.  In every store state, loading the
\* definition that exportCircuit returns succeeds and gives the timeline
\* that buildTimeline(numQubits, gates, initialState) gives for the
\* exporting store, so the same final state amplitude for amplitude, and the
\* same qubit count, initial bits and gates (ids, targets, columns, order);
\* and when the definition goes through its JSON text and the validation
\* lets it through, the definition read back is the one exported.
C15_ExportLoadRoundTrip ==
  thrown = NoThrow =>
    LET built == buildTimeline(numQubits, gates, initialState)
        direct == loadedCircuit(exportCircuit)
        read == parseCircuitJSON(stringify(exportCircuit))
    IN /\ built.err = NoError
       /\ direct.err = NoError
       /\ direct.timeline[Len(direct.timeline)].state
            = built.timeline[Len(built.timeline)].state
       /\ direct.timeline = built.timeline
       /\ direct.numQubits = numQubits
       /\ direct.initialState = initialState
       /\ direct.gates = gates
       /\ read.err = NoError => read.definition = exportCircuit

\* a store with two gates and a set initial bit, whose export passes the
\* validation
C15_TwoGatesExported ==
  /\ thrown = NoThrow
  /\ Len(gates) = 2
  /\ initialState = <<0, 1>>
  /\ parseCircuitJSON(stringify(exportCircuit)).err = NoError


\* C16: validation of an imported definition rejects it whenever the qubit
\* count is outside 1..6, the gates field is not a list, a gate name is not
\* in the library, a gate's target count differs from its arity, a target is
\* outside [0, numQubits), or a column is negative; and every definition it
\* accepts is loaded, its timeline built, without any error: no load of the
\* application ends in a throw of loadCircuit.
C16_ValidationGuardsLoad ==
  /\ \A raw \in ImportInputs :
       LET input == parse(raw)
           n == input.numQubits.number
           listed == IsArray(input.gates)
           items == IF listed THEN input.gates.array ELSE <<>>
           refused ==
             \/ n < 1 \/ n > 6
             \/ ~listed
             \/ \E i \in DOMAIN items :
                  LET gate == items[i]
                  IN \/ ~InLibrary(gate.name.string)
                     \/ ~IsArray(gate.targets)
                     \/ Len(gate.targets.array)
                          # GATE_LIBRARY(gate.name.string).arity
                     \/ \E j \in DOMAIN gate.targets.array :
                          \/ ~IsNumber(gate.targets.array[j])
                          \/ gate.targets.array[j].number \notin 0..(n - 1)
                     \/ gate.column.number < 0
       IN /\ refused => validateCircuitDefinition(input) # NoError
          /\ validateCircuitDefinition(input) = NoError =>
               loadedCircuit(asDefinition(input)).err = NoError
  /\ thrown.op # "loadCircuit"


\* C17: in every store state reached by addGate, moveGate, removeGate,
\* setNumQubits, resetCircuit and loads of definitions that passed the
\* validation, every gate of gates has as many targets as its gate's arity,
\* targets that are pairwise distinct and all in [0, numQubits), and a
\* column >= 0.
C17_StoredGatesWellFormed ==
  \A i \in DOMAIN gates :
    /\ InLibrary(gates[i].name)
    /\ Len(gates[i].targets) = GATE_LIBRARY(gates[i].name).arity
    /\ \A j, k \in DOMAIN gates[i].targets :
         gates[i].targets[j] = gates[i].targets[k] => j = k
    /\ \A j \in DOMAIN gates[i].targets :
         gates[i].targets[j] \in 0..(numQubits - 1)
    /\ gates[i].column >= 0


-----------------------------------------------------------------------------
(* Properties of the gate library, sampling and collapse                    *)

\* C18: constructing a gate matrix fails whenever some entry of U.U^dagger
\* differs from the identity (by more than 1e-9: a difference of the exact
\* entries followed here is never smaller) or the number of entries is not
\* 2 * size^2, and only then, so that no other matrix is registered; every
\* matrix of the library passes; and the check is made at construction only:
\* no gate application fails with its error.  The candidates are the 2x2
\* matrices of entries 0, 1, -1, 1/sqrt 2 and i, the palette's own literals,
\* and entry lists of a wrong length.
C18_NonUnitaryNeverRegistered ==
  LET values == {R(Zero), R(One), R(MinusOne), R(SQRT1_2), <<Zero, One>>}
      at(list, size, r, c) ==
        <<list[2 * (r * size + c) + 1], list[2 * (r * size + c) + 2]>>
      \* a * conj(b)
      timesConj(a, b) ==
        <<Add(Mul(a[1], b[1]), Mul(a[2], b[2])),
          Sub(Mul(a[2], b[1]), Mul(a[1], b[2]))>>
      plus(x, y) == <<Add(x[1], y[1]), Add(x[2], y[2])>>
      term(list, size, r, c, k) ==
        timesConj(at(list, size, r, k), at(list, size, c, k))
      dot(list, size, r, c) ==
        IF size = 2
          THEN plus(term(list, 2, r, c, 0), term(list, 2, r, c, 1))
        ELSE plus(plus(term(list, 4, r, c, 0), term(list, 4, r, c, 1)),
                  plus(term(list, 4, r, c, 2), term(list, 4, r, c, 3)))
      unitary(list, size) ==
        \A r \in 0..(size - 1), c \in 0..(size - 1) :
          dot(list, size, r, c) = <<IF r = c THEN One ELSE Zero, Zero>>
      candidates == {Flatten(m) : m \in [1..4 -> values]}
  IN /\ hBudget = MaxCalls =>
          /\ \A list \in candidates :
               createMatrix(2, list).err
                 = IF unitary(list, 2) THEN NoError ELSE NonUnitary
          /\ \A list \in candidates :
               /\ createMatrix(4, list).err = MatrixMismatch
               /\ createMatrix(2, Tail(list)).err = MatrixMismatch
               /\ createMatrix(2, list \o <<Zero>>).err = MatrixMismatch
          /\ \A i \in DOMAIN paletteLiterals :
               LET literal == paletteLiterals[i]
               IN /\ createMatrix(literal.size,
                                  Flatten(literal.entries)).err = NoError
                  /\ unitary(Flatten(literal.entries), literal.size)
                  /\ gatePalette[i].matrix.data = Flatten(literal.entries)
     /\ hThrown.err \notin {NonUnitary, MatrixMismatch}
     /\ thrown.err \notin {NonUnitary, MatrixMismatch}

\* two gate applications made on a two-qubit register, none of which threw
C18_GatesApplied ==
  /\ hQubits = 2
  /\ hBudget = 0
  /\ hThrown = NoThrow
  /\ hResult = None
  /\ hState.real[4] = One


\* C19: sampling is CDF inversion.  For the probabilities p of the patterns
\* of a measurement and a draw d = random * total in [0, total), the
\* selected pattern is the smallest i with p[0] + ... + p[i] >= d; when the
\* total probability is 0, pattern 0 is selected.  The measurements are the
\* ones a caller can ask of the state it holds, under every draw; the
\* probabilities are numbers (a state of NaN amplitudes has no total to draw
\* below).
C19_CdfInversion ==
  \A qubits \in MeasureLists(hQubits - 1), random \in Draws :
    measureThrows(qubits, hQubits) = NoError =>
      LET sortedQubits == sortedUnique(qubits)
          p == probabilityLoop(hState, sortedQubits, 0,
                               Float64Array(Pow2(Len(sortedQubits))))
          cdf[i \in 0..(Len(p) - 1)] ==
            IF i = 0 THEN p[1] ELSE Add(cdf[i - 1], p[i + 1])
          total == cdf[Len(p) - 1]
          d == Mul(random, total)
          selected == samplePattern(p, random)
      IN /\ selected \in 0..(Len(p) - 1)
         /\ (\A i \in DOMAIN p : ~IsNaN(p[i])) =>
              IF total = Zero THEN selected = 0
              ELSE /\ Leq(Zero, d) /\ ~Leq(total, d)
                   /\ Leq(d, cdf[selected])
                   /\ \A i \in 0..(selected - 1) : ~Leq(d, cdf[i])
         /\ measureRepresentable(hState, qubits, hQubits, random) =>
              measureState(hState, qubits, hQubits, random)
                .result[1].outcome = describePattern(selected, sortedQubits)

\* a measurement of qubit 0 in an even superposition returned outcome 1
C19_UpperHalfSelected ==
  /\ hResult # None
  /\ hResult[1].result.measuredQubits = <<0>>
  /\ hResult[1].result.outcome = <<<<0, 1>>>>
  /\ hResult[1].result.probabilities[1].probability = <<1, 0, 1>>


\* C20: collapse.  When measureState returns, every basis index whose bits at
\* the measured qubits differ from the outcome has amplitude 0 in nextState,
\* every other index holds its amplitude of the state passed in times one
\* real factor common to all of them, 1 / sqrt of the probability that
\* survives (0 when that probability is 0), and the state passed in is as it
\* was: the collapse is made on a clone.
C20_CollapseOnClone ==
  \A qubits \in MeasureLists(hQubits - 1), random \in Draws :
    (/\ measureThrows(qubits, hQubits) = NoError
     /\ measureRepresentable(hState, qubits, hQubits, random)) =>
      LET measured == measureState(hState, qubits, hQubits, random)
          next == measured.nextState
          outcome == measured.result[1].outcome
          matches(basis) ==
            \A i \in DOMAIN outcome :
              (basis \div Pow2(outcome[i][1])) % 2 = outcome[i][2]
          weight(basis) ==
            IF matches(basis)
              THEN Add(Mul(hState.real[basis + 1], hState.real[basis + 1]),
                       Mul(hState.imag[basis + 1], hState.imag[basis + 1]))
              ELSE Zero
          kept[basis \in 0..(Len(hState.real) - 1)] ==
            IF basis = 0 THEN weight(0)
            ELSE Add(kept[basis - 1], weight(basis))
          surviving == kept[Len(hState.real) - 1]
          factor == IF Gt(surviving, Zero) THEN InvSqrt(surviving) ELSE Zero
      IN /\ measured.err = NoError
         /\ measured.state = hState
         /\ Len(next.real) = Len(hState.real)
         /\ Len(next.imag) = Len(hState.imag)
         /\ Gt(surviving, Zero) => Mul(Mul(factor, factor), surviving) = One
         /\ \A basis \in 0..(Len(hState.real) - 1) :
              IF matches(basis)
                THEN /\ next.real[basis + 1]
                          = Mul(hState.real[basis + 1], factor)
                     /\ next.imag[basis + 1]
                          = Mul(hState.imag[basis + 1], factor)
              ELSE /\ next.real[basis + 1] = Zero
                   /\ next.imag[basis + 1] = Zero

\* the caller holds a two-qubit state and the collapse of both its qubits,
\* which differs from it
C20_CollapsedCopyReturned ==
  /\ hQubits = 2
  /\ hResult # None
  /\ hThrown = NoThrow
  /\ hResult[1].result.measuredQubits = <<0, 1>>
  /\ hResult[1].nextState # hState
  /\ \E basis \in DOMAIN hState.real :
       hState.real[basis] # Zero /\ hResult[1].nextState.real[basis] = Zero


\* C21: measureState depends only on the set of the measured qubits.  For any
\* two qubit lists of the same elements (in another order, with indices
\* repeated), the same state and the same draw, it returns the same
\* measuredQubits, the ascending list of the distinct indices, the same
\* probability map, of exactly 2^k labels for k distinct qubits with the
\* first sorted qubit as the lowest bit of the pattern, the same outcome and
\* the same nextState.
C21_MeasureDependsOnSetOnly ==
  \A qubits \in MeasureLists(hQubits - 1), random \in Draws :
    (/\ measureThrows(qubits, hQubits) = NoError
     /\ measureRepresentable(hState, qubits, hQubits, random)) =>
      LET distinct == {qubits[i] : i \in DOMAIN qubits}
          k == Cardinality(distinct)
          measured == measureState(hState, qubits, hQubits, random)
          result == measured.result[1]
      IN /\ measured.err = NoError
         /\ Len(result.measuredQubits) = k
         /\ {result.measuredQubits[i] : i \in 1..k} = distinct
         /\ \A i \in 1..(k - 1) :
              result.measuredQubits[i] < result.measuredQubits[i + 1]
         /\ Len(result.probabilities) = Pow2(k)
         /\ \A pattern \in 0..(Pow2(k) - 1) :
              result.probabilities[pattern + 1].label
                = [i \in 1..k |-> <<result.measuredQubits[i],
                                    (pattern \div Pow2(i - 1)) % 2>>]
         /\ \A other \in MeasureLists(hQubits - 1) :
              {other[i] : i \in DOMAIN other} = distinct =>
                /\ measureRepresentable(hState, other, hQubits, random)
                /\ measureState(hState, other, hQubits, random) = measured

\* both qubits of a two-qubit register were measured, qubit 0 found set and
\* qubit 1 clear
C21_BothQubitsMeasured ==
  /\ hQubits = 2
  /\ hThrown = NoThrow
  /\ hResult # None
  /\ hResult[1].result.measuredQubits = <<0, 1>>
  /\ hResult[1].result.outcome = <<<<0, 1>>, <<1, 0>>>>
  /\ Len(hResult[1].result.probabilities) = 4


\* C22: the single-qubit path.  For every single-qubit gate of the library,
\* with matrix [[m00, m01], [m10, m11]], every target t < n and every state
\* of 2^n amplitudes, after applyGateToState every index i whose bit t is 0
\* holds m00 * old[i] + m01 * old[i + 2^t], and index i + 2^t holds
\* m10 * old[i] + m11 * old[i + 2^t]: each index is written once, from the
\* old amplitudes of itself and of its partner in bit t only.  H on qubit 0
\* of the zero state of 1 to 6 qubits leaves exactly indices 0 and 1
\* nonzero, each of probability 1/2.
C22_SingleQubitPath ==
  LET times(a, b) ==
        <<Sub(Mul(a[1], b[1]), Mul(a[2], b[2])),
          Add(Mul(a[1], b[2]), Mul(a[2], b[1]))>>
      plus(x, y) == <<Add(x[1], y[1]), Add(x[2], y[2])>>
      amp(state, i) == <<state.real[i + 1], state.imag[i + 1]>>
      single == {name \in GateName :
                   InLibrary(name) /\ GATE_LIBRARY(name).arity = 1}
  IN /\ \A name \in single, t \in 0..(hQubits - 1) :
          LET data == GATE_LIBRARY(name).matrix.data
              m00 == <<data[1], data[2]>>
              m01 == <<data[3], data[4]>>
              m10 == <<data[5], data[6]>>
              m11 == <<data[7], data[8]>>
              applied == applyGateToState(hState, name, <<t>>, hQubits)
          IN /\ applied.err = NoError
             /\ Len(applied.state.real) = Pow2(hQubits)
             /\ Len(applied.state.imag) = Pow2(hQubits)
             /\ \A i \in 0..(Pow2(hQubits) - 1) :
                  (i \div Pow2(t)) % 2 = 0 =>
                    /\ amp(applied.state, i)
                         = plus(times(m00, amp(hState, i)),
                                times(m01, amp(hState, i + Pow2(t))))
                    /\ amp(applied.state, i + Pow2(t))
                         = plus(times(m10, amp(hState, i)),
                                times(m11, amp(hState, i + Pow2(t))))
     /\ hBudget = MaxCalls =>
          \A n \in MinQubits..MaxQubits :
            LET after == applyGateToState(createZeroState(n), "H", <<0>>,
                                          n).state
            IN \A i \in 0..(Pow2(n) - 1) :
                 /\ after.imag[i + 1] = Zero
                 /\ IF i \in {0, 1}
                      THEN Mul(after.real[i + 1], after.real[i + 1])
                             = <<1, 0, 1>>
                    ELSE after.real[i + 1] = Zero

\* H was applied to qubit 0 of the two-qubit zero state
C22_HadamardApplied ==
  /\ hQubits = 2
  /\ hBudget = MaxCalls - 1
  /\ hThrown = NoThrow
  /\ hState = [real |-> <<SQRT1_2, SQRT1_2, Zero, Zero>>,
               imag |-> <<Zero, Zero, Zero, Zero>>]


\* C23: the index partition of the multi-qubit path.  For every n in 2..6
\* and every list of 2 or 3 pairwise distinct targets below n, the map
\* (combo, pattern) -> scatterBits(combo) | encodePattern(pattern), combo in
\* [0, 2^(n - arity)) and pattern in [0, 2^arity), is a bijection onto
\* [0, 2^n): scatterBits sets no target bit and encodePattern only target
\* bits, the index sets of different combos are disjoint and together they
\* cover the state, so each amplitude is read and written once per
\* application.
C23_IndexPartition ==
  (hBudget = 1 /\ hState = createZeroState(hQubits) /\ hQubits >= 2) =>
    LET n == hQubits
        lists == {p \in [1..2 -> 0..(n - 1)] : p[1] # p[2]}
                   \cup {p \in [1..3 -> 0..(n - 1)] :
                           p[1] # p[2] /\ p[1] # p[3] /\ p[2] # p[3]}
        digit(i, q) == (i \div Pow2(q)) % 2
    IN \A targets \in lists :
         LET arity == Len(targets)
             targetFlags == makeTargetFlags(targets, n)
             combos == 0..(Pow2(n - arity) - 1)
             patterns == 0..(Pow2(arity) - 1)
             index(combo, pattern) ==
               BitOr(scatterBits(combo, targetFlags),
                     encodePattern(pattern, targets))
             image == {index(cp[1], cp[2]) : cp \in combos \X patterns}
         IN /\ image = 0..(Pow2(n) - 1)
            /\ Cardinality(image) = Cardinality(combos \X patterns)
            /\ \A combo \in combos, i \in 1..arity :
                 digit(scatterBits(combo, targetFlags), targets[i]) = 0
            /\ \A pattern \in patterns, q \in 0..(n - 1) :
                 digit(encodePattern(pattern, targets), q) = 1
                   => \E i \in 1..arity : targets[i] = q

\* a two-qubit gate was applied to a three-qubit register and left it in
\* the basis state of all bits set
C23_TwoQubitGateApplied ==
  /\ hQubits = 3
  /\ hBudget = 0
  /\ hThrown = NoThrow
  /\ hState.real[8] = One


-----------------------------------------------------------------------------
(* Properties of the store                                                  *)

\* C24: the suffix rebuild and the full build are the same replay.  For the
\* qubit count, gates and initial bits of every store state,
\* rebuildFutureTimeline run from the initial basis state over all the gates
\* gives, entry for entry, the step numbers, gate groups, columns and states
\* of entries 1.. of buildTimeline on the same inputs.
C24_RebuildIsBuild ==
  thrown = NoThrow =>
    LET built == buildTimeline(numQubits, gates, initialState)
        rebuilt == rebuildFutureTimeline(createBasisState(numQubits,
                                                          initialState),
                                         orderGates(gates), 0, numQubits)
    IN /\ rebuilt.err = built.err
       /\ built.err = NoError =>
            /\ Len(rebuilt.entries) = Len(built.timeline) - 1
            /\ \A i \in 1..Len(rebuilt.entries) :
                 /\ rebuilt.entries[i].step = built.timeline[i + 1].step
                 /\ rebuilt.entries[i].state = built.timeline[i + 1].state
                 /\ rebuilt.entries[i].gates
                      = Some(<<built.timeline[i + 1].gate[1]>>)
                 /\ rebuilt.entries[i].column
                      = Some(built.timeline[i + 1].gate[1].column)


\* C25: right after every successful circuit edit of the store (addGate,
\* removeGate, moveGate of a gate the circuit has, setInitialState,
\* resetCircuit, setNumQubits, loadCircuit) the timeline is
\* buildTimeline(numQubits, gates, initialState) for the values the store
\* then holds: the edit regenerates the whole sequence from the initial
\* basis state, and a collapse made by an earlier measurement is gone.
\* (A step whose timeline is not that fresh build must be no successful edit;
\* each edit is tried on it only once the gates the step leaves are the ones
\* that edit would leave.)
C25_EditRebuildsTimeline ==
  [][\/ thrown # NoThrow
     \/ thrown' # NoThrow
     \/ \E built \in {buildTimeline(numQubits', gates', initialState')} :
          built.err = NoError /\ timeline' = built.timeline
     \/ ~ \/ \E value \in QubitCountInputs :
               numQubits' = value /\ setNumQubits(value)
          \/ \E state \in InitialStateInputs :
               gates' = gates /\ setInitialState(state)
          \/ \E id \in GateIds, p \in PlacementInputs :
               /\ Len(gates') = Len(gates) + 1
               /\ gates'[Len(gates')].id = id
               /\ gates'[Len(gates')].name = p[1]
               /\ gates'[Len(gates')].targets = p[2]
               /\ addGate(id, p[1], p[2], p[3])
          \/ \E id \in GateIds :
               /\ gates' = SelectSeq(gates, LAMBDA g : g.id # id)
               /\ removeGate(id)
          \/ \E id \in {gates[i].id : i \in DOMAIN gates},
                column \in ColumnInputs :
               /\ Len(gates') = Len(gates)
               /\ \E i \in DOMAIN gates :
                    gates[i].id = id /\ gates'[i].column = Max(0, column)
               /\ moveGate(id, column)
          \/ gates' = <<>> /\ resetCircuit
          \/ \E definition \in LoadInputs :
               /\ gates' = definition.gates
               /\ numQubits' = definition.numQubits
               /\ loadCircuit(definition)]_vars

\* a circuit of two gates that holds no collapse, shown at its last step
C25_EditedCircuit ==
  /\ thrown = NoThrow
  /\ Len(gates) = MaxGates
  /\ collapses = 0
  /\ measurement = None
  /\ currentStep = Len(timeline) - 1
  /\ timeline = buildTimeline(numQubits, gates, initialState).timeline


\* C26: in every state the store reaches by its actions, the current step
\* indexes an entry of the timeline: 0 <= currentStep <= timeline.length - 1.
C26_CurrentStepInTimeline ==
  /\ currentStep >= 0
  /\ currentStep <= Len(timeline) - 1


\* C27: measureState never selects an impossible outcome.  For the state a
\* caller holds, every list of qubits it can measure whose patterns have a
\* total probability above 0, and every draw in [0, 1), the draw of exactly 0
\* included, the selected pattern has a probability above 0 in the returned
\* map, and the returned nextState is not the all-zero vector (the collapsed
\* amplitudes, which the call then scales by one factor, are not all 0).
C27_OutcomeIsPossible ==
  \A qubits \in MeasureLists(hQubits - 1), random \in Draws :
    measureThrows(qubits, hQubits) = NoError =>
      LET m == measureSteps(hState, qubits, random)
          p == m.subsetProbabilities
          total == sumLoop(p, 0, Zero)
      IN ((\A i \in DOMAIN p : ~IsNaN(p[i])) /\ Gt(total, Zero)) =>
           /\ Gt(p[m.selectedPattern + 1], Zero)
           /\ \E row \in DOMAIN m.masked.real :
                \/ m.masked.real[row] # Zero
                \/ m.masked.imag[row] # Zero


\* C28: in every store state in which measurement is defined, the timeline
\* has an entry at currentStep and its state is the collapsed one: every
\* basis index whose bit at one of measurement.measuredQubits differs from
\* the bit measurement.outcome gives that qubit has amplitude 0.
C28_MeasurementMatchesState ==
  measurement # None =>
    /\ currentStep + 1 \in DOMAIN timeline
    /\ LET state == timeline[currentStep + 1].state
           outcome == measurement[1].outcome
       IN \A basis \in 0..(Len(state.real) - 1) :
            (\E k \in DOMAIN outcome :
               Bit(basis, outcome[k][1]) # outcome[k][2])
              => /\ state.real[basis + 1] = Zero
                 /\ state.imag[basis + 1] = Zero


\* C29: navigation.  A stepForward leaves currentStep at
\* min(timeline.length - 1, currentStep + 1), a stepBackward at
\* max(0, currentStep - 1), a jumpToStep(step) at step clamped into
\* [0, timeline.length - 1]; each of them clears measurement and leaves gates,
\* timeline, numQubits and initialState as they were, so that the state an
\* earlier measurement collapsed is still the state of its entry.
C29_NavigationFrame ==
  [][(thrown = NoThrow =>
        /\ stepForward =>
             currentStep' = IF currentStep + 1 <= Len(timeline) - 1
                              THEN currentStep + 1 ELSE Len(timeline) - 1
        /\ stepBackward =>
             currentStep' = IF currentStep - 1 >= 0
                              THEN currentStep - 1 ELSE 0
        /\ \A step \in -1..(MaxGates + 2) :
             jumpToStep(step) =>
               /\ (step \in 0..(Len(timeline) - 1) => currentStep' = step)
               /\ (step < 0 => currentStep' = 0)
               /\ (step > Len(timeline) - 1 /\ Len(timeline) >= 1
                     => currentStep' = Len(timeline) - 1)
        /\ (stepForward \/ stepBackward
              \/ \E step \in -1..(MaxGates + 2) : jumpToStep(step)) =>
             /\ measurement' = None
             /\ gates' = gates
             /\ numQubits' = numQubits
             /\ initialState' = initialState
             /\ timeline' = timeline
             /\ \A k \in DOMAIN timeline :
                  timeline'[k].state = timeline[k].state)]_vars

\* the store was navigated back to step 0 of a timeline that holds a collapse
C29_NavigatedAfterCollapse ==
  /\ thrown = NoThrow
  /\ collapses = 1
  /\ measurement = None
  /\ currentStep = 0
  /\ Len(timeline) > 1


\* C30: a failing store action changes nothing.  An addGate whose targets
\* repeat a qubit, whose targets leave [0, numQubits), whose target count
\* differs from the arity of its gate or whose gate name the library does not
\* have, and a measure whose qubit list is empty or leaves [0, numQubits),
\* raises an error, and gates, timeline, currentStep and measurement are as
\* they were before the call: in every store state such a measure reaches a
\* check that raises, and every step that is such a call raises and leaves
\* the four as they were.
C30_FailingActionChangesNothing ==
  /\ [](thrown = NoThrow =>
          \A qubits \in MeasureInputs :
            (\/ Len(qubits) = 0
             \/ \E i \in DOMAIN qubits : qubits[i] \notin 0..(numQubits - 1))
              => /\ ~measureReturnsUndefined
                 /\ measureThrows(qubits, numQubits) # NoError)
  /\ [][thrown = NoThrow =>
          /\ \A id \in GateIds, p \in PlacementInputs :
               (\/ \E i, j \in DOMAIN p[2] : i # j /\ p[2][i] = p[2][j]
                \/ \E i \in DOMAIN p[2] : p[2][i] \notin 0..(numQubits - 1)
                \/ ~InLibrary(p[1])
                \/ Len(p[2]) # GATE_LIBRARY(p[1]).arity)
                 => \/ /\ thrown'.op = "addGate"
                       /\ thrown'.err # NoError
                       /\ gates' = gates
                       /\ timeline' = timeline
                       /\ currentStep' = currentStep
                       /\ measurement' = measurement
                    \/ ~addGate(id, p[1], p[2], p[3])
          /\ \A qubits \in MeasureInputs, random \in StoreDraws :
               (\/ Len(qubits) = 0
                \/ \E i \in DOMAIN qubits :
                     qubits[i] \notin 0..(numQubits - 1))
                 => \/ /\ thrown'.op = "measure"
                       /\ thrown'.err # NoError
                       /\ gates' = gates
                       /\ timeline' = timeline
                       /\ currentStep' = currentStep
                       /\ measurement' = measurement
                    \/ ~measure(qubits, random)]_vars

=============================================================================
